---- MODULE Spec2Model ----
(***************************************************************************)
(* A model of the matrix-free observation covariance of bayes_dip: the     *)
(* randomized low-rank basis (LowRankObservationCov) and the CG solve      *)
(* (linear_cg) used by the log-determinant gradient estimator.             *)
(*                                                                         *)
(* Numbers.  Tensors hold exact integers (low-rank part) or exact          *)
(* rationals (CG part).  A hyperparameter is stored in log space as in the *)
(* source; Exp maps the stored integer log to the variance on a base-2     *)
(* grid (1, 2, 4, ...), so variance = Exp(log_variance) > 0.               *)
(* Matrices are sequences of rows.  The ray transform is a signed          *)
(* permutation matrix and the neural tangent map is the identity, so the   *)
(* prior-only operator is a diagonal PSD matrix and every intermediate of  *)
(* the randomized eigendecomposition is an exact integer matrix.           *)
(***************************************************************************)
EXTENDS Integers, Sequences, FiniteSets, TLC

VARIABLES
    \* ---- the LowRankObservationCov object (fields set by __init__) ----
    trafo,                \* ray transform matrix, obs x image
    log_variance,         \* image_cov prior hyperparameters, one per weight group
    log_noise_variance,   \* ObservationCov.log_noise_variance
    low_rank_rank_dim,    \* k
    oversampling_param,   \* p
    vec_batch_size,
    random_matrix,        \* (k + p) x M probing matrix
    \* ---- one call of get_batched_low_rank_observation_cov_basis ----
    lr_pc,                \* "idle" | "loop" | "eig" | "done" | "error"
    eps,                  \* the call's eps argument
    i,                    \* loop index of the batched probing loop
    v_cov_obs_mat,        \* list of batch results appended so far
    Q, B, L, V,           \* locals after lines 119-123
    ret,                  \* returned pair [U, L], or NoValue
    \* ---- one call of linear_cg ----
    cg_pc,                \* "idle" | "cg" | "solved" | "returned" | "raised"
    v,                    \* right-hand sides, M x num_probes
    closure,              \* the xitorch_operator built around observation_cov
    preconditioner,       \* NoValue (None) or a preconditioner object
    max_cg_iter,
    rtol,
    v_norm,               \* 1 x num_probes
    v_scaled,             \* M x num_probes
    cg_state,             \* the solver's iterate, residual, direction, counters
    solve_T,              \* what cg returned to linear_cg
    residual_norm,
    solve,                \* linear_cg's first return value
    exc,                  \* the exception raised, or NoValue
    \* ---- one call of approx_observation_cov_log_det_grads ----
    ge_pc,                \* "idle" | "asserts" | "probes" | "solve" | "pullback" |
                          \* "prior" | "noise" | "return" | "returned" | "raised"
    assertions_enabled,   \* __debug__ of the interpreter: FALSE under python -O
    ge_num_probes,        \* the call's num_probes argument
    ge_preconditioner,    \* the call's preconditioner argument
    linear_cg_kwargs,     \* the caller's optim_kwargs['linear_cg'] settings
    parameters,           \* list(observation_cov.parameters())
    image_cov_parameters, \* list(image_cov.parameters())
    v_flat,               \* the probe batch
    v_obs_left_flat,      \* what linear_cg returned
    v_left, v_right,      \* the two factors in weight space
    grads,                \* the mapping being filled
    requires_grad,        \* per local tensor: the parameters its graph reaches
    ge_exc,               \* the exception raised, or NoValue
    \* ---- one call of weights_linearization ----
    wl_pc,                \* "idle" | "loop" | "returned" | "raised"
    nn_model,             \* neural_basis_expansion.nn_model
    wl_trafo,             \* the call's trafo argument
    neural_basis_expansion,
    map_weights,          \* the caller's tensor
    observation,
    optim_kwargs,
    recon_no_activation,
    lin_weights_fd,       \* the optimization variable
    optimizer,
    wl_iter,              \* passes of the loop completed
    lin_recon,            \* unbound (NoTensor) until the loop body ran
    grads_vec,
    wl_ret,               \* the returned pair
    wl_exc,               \* the exception raised, or NoValue
    wl_line,              \* the line the call is at, or raised at
    wl_site,              \* the call site: "direct" | "sample_based" | "experiment"
    \* ---- one run of coordinator (experiments/dip_mll_optim.py) ----
    ex_pc,                \* "idle" | "loop" | "returned" | "raised"
    cfg,                  \* the run's configuration
    ex_i,                 \* index of the sample the for loop is at
    ex_files,             \* the files written so far
    ex_exc,               \* the exception that left coordinator, or NoValue
    ex_line,              \* the line it was raised at
    \* ---- the gprior hyperparameter and the low-rank preconditioner ----
    gprior_log_variance,  \* the object gprior.log_variance names
    pre_basis,            \* the basis the preconditioner holds
    pre_updates,          \* update() calls made on the preconditioner
    \* ---- one call of sample_based_marginal_likelihood_optim ----
    sb_pc,                \* "idle" | "loop" | "returned" | "raised"
    sb_optim_kwargs,      \* the call's optim_kwargs
    sb_i,                 \* the loop variable i
    sb_written,           \* iterations whose prior variance was written
    sb_files,             \* the files written so far
    sb_exc,               \* the exception raised, or NoValue
    sb_line               \* the line it was raised at

objVars == <<trafo, log_variance, log_noise_variance, low_rank_rank_dim,
             oversampling_param, vec_batch_size, random_matrix>>

lrVars == <<lr_pc, eps, i, v_cov_obs_mat, Q, B, L, V, ret>>

cgVars == <<cg_pc, v, closure, preconditioner, max_cg_iter, rtol, v_norm, v_scaled,
            cg_state, solve_T, residual_norm, solve, exc>>

geVars == <<ge_pc, assertions_enabled, ge_num_probes, ge_preconditioner,
            linear_cg_kwargs, parameters,
            image_cov_parameters, v_flat, v_obs_left_flat, v_left, v_right, grads,
            requires_grad, ge_exc>>

wlVars == <<wl_pc, nn_model, wl_trafo, neural_basis_expansion, map_weights,
            observation, optim_kwargs, recon_no_activation, lin_weights_fd,
            optimizer, wl_iter, lin_recon, grads_vec, wl_ret, wl_exc, wl_line, wl_site>>

exVars == <<ex_pc, cfg, ex_i, ex_files, ex_exc, ex_line>>

preVars == <<gprior_log_variance, pre_basis, pre_updates>>

sbVars == <<sb_pc, sb_optim_kwargs, sb_i, sb_written, sb_files, sb_exc, sb_line>>

vars == <<objVars, lrVars, cgVars, geVars, wlVars, exVars, preVars, sbVars>>

NoValue == "none"

----------------------------------------------------------------------------
(* Bounds of the model *)
MaxRank == 2
MaxOversampling == 1
MaxBatch == 2

(* trafo.obs_shape of the modelled ray transform and its number of entries *)
obs_shape == <<2, 2>>
ObsNumel == obs_shape[1] * obs_shape[2]

(* the grid of stored log-variances *)
LogVals == {0, 1}

RECURSIVE Exp(_)
Exp(x) == IF x = 0 THEN 1 ELSE 2 * Exp(x - 1)

----------------------------------------------------------------------------
(* Integer vectors and matrices *)

(* the same sequence with its entries computed once *)
Eager(s) == s \o <<>>

(* Op applied to the value of e, with e computed once *)
Then(e, Op(_)) == CHOOSE z \in {Op(y) : y \in {e}} : TRUE

Then2(e, f, Op(_, _)) == CHOOSE z \in {Op(x, y) : x \in {e}, y \in {f}} : TRUE

EagerMat(A) == Then(A, LAMBDA M : Eager([r \in 1..Len(M) |-> Eager(M[r])]))

RECURSIVE SumSeq(_)
SumSeq(s) == IF s = <<>> THEN 0 ELSE Head(s) + SumSeq(Tail(s))

Dot(a, b) == SumSeq([j \in 1..Len(a) |-> a[j] * b[j]])

NumRows(A) == Len(A)
NumCols(A) == IF Len(A) = 0 THEN 0 ELSE Len(A[1])

Transpose(A) ==
    Then(A, LAMBDA M : [c \in 1..NumCols(M) |-> [r \in 1..NumRows(M) |-> M[r][c]]])

MatVec(A, x) == [r \in 1..NumRows(A) |-> Dot(A[r], x)]

MatMul(A, C) ==
    [r \in 1..NumRows(A) |-> [c \in 1..NumCols(C) |-> Dot(A[r], Transpose(C)[c])]]

ZeroVec(n) == [j \in 1..n |-> 0]

Abs(x) == IF x < 0 THEN -x ELSE x

DropIdx(s, d) == [j \in 1..(Len(s) - 1) |-> IF j < d THEN s[j] ELSE s[j + 1]]

Minor(A, r, c) == [a \in 1..(Len(A) - 1) |-> DropIdx(DropIdx(A, r)[a], c)]

RECURSIVE Det(_)
Det(A) ==
    IF Len(A) = 0 THEN 1
    ELSE IF Len(A) = 1 THEN A[1][1]
    ELSE SumSeq([c \in 1..Len(A) |->
            (IF c % 2 = 1 THEN 1 ELSE -1) * A[1][c] * Det(Minor(A, 1, c))])

Adjugate(A) ==
    [r \in 1..Len(A) |-> [c \in 1..Len(A) |->
        (IF (r + c) % 2 = 0 THEN 1 ELSE -1) * Det(Minor(A, c, r))]]

(* exact integer square root and exact quotient; both are only applied where
   the result is an integer *)
ISqrt(n) == CHOOSE s \in 0..n : s * s = n
DivExact(a, d) == CHOOSE q \in (-Abs(a))..Abs(a) : q * d = a

----------------------------------------------------------------------------
(* Exact rationals with NaN, for the CG solve.  A rational is [n, d] with
   d > 0 in lowest terms; NaN is what 0/0 produces and it absorbs every
   operation and fails every comparison, as in IEEE arithmetic. *)

RECURSIVE GCD(_, _)
GCD(a, b) == IF b = 0 THEN a ELSE GCD(b, a % b)

LCM(a, b) == (a \div GCD(a, b)) * b

Sign(x) == IF x < 0 THEN -1 ELSE 1

Rat(n, d) ==
    Then(GCD(Abs(n), d), LAMBDA g : [n |-> Sign(n) * (Abs(n) \div g), d |-> d \div g])

NaN == [n |-> 0, d |-> 0]

FromInt(z) == [n |-> z, d |-> 1]

Zero == FromInt(0)

IsNaN(a) == a.d = 0

RAdd(a, b) ==
    Then2(a, b, LAMBDA x, y :
        IF IsNaN(x) \/ IsNaN(y) THEN NaN ELSE Rat(x.n * y.d + y.n * x.d, x.d * y.d))

RSub(a, b) ==
    Then2(a, b, LAMBDA x, y :
        IF IsNaN(x) \/ IsNaN(y) THEN NaN ELSE Rat(x.n * y.d - y.n * x.d, x.d * y.d))

RMul(a, b) ==
    Then2(a, b, LAMBDA x, y :
        IF IsNaN(x) \/ IsNaN(y) THEN NaN ELSE Rat(x.n * y.n, x.d * y.d))

(* the tensors here are divided by zero only as 0/0 *)
RDiv(a, b) ==
    Then2(a, b, LAMBDA x, y :
        IF IsNaN(x) \/ IsNaN(y) \/ y.n = 0 THEN NaN
        ELSE Rat(Sign(y.n) * x.n * y.d, x.d * Abs(y.n)))

RLess(a, b) ==
    Then2(a, b, LAMBDA x, y : ~IsNaN(x) /\ ~IsNaN(y) /\ x.n * y.d < y.n * x.d)

RECURSIVE RSum(_)
RSum(s) == IF s = <<>> THEN Zero ELSE RAdd(Head(s), RSum(Tail(s)))

RDot(a, b) == Then(Eager([j \in 1..Len(a) |-> RMul(a[j], b[j])]), RSum)

ToRat(A) == [r \in 1..Len(A) |-> [c \in 1..Len(A[r]) |-> FromInt(A[r][c])]]

(* row-major flattening and reshaping of a 2-D tensor *)
Flatten(A) ==
    Then(A, LAMBDA M :
        Eager([n \in 1..(NumRows(M) * NumCols(M)) |->
            M[((n - 1) \div NumCols(M)) + 1][((n - 1) % NumCols(M)) + 1]]))

Reshape(flat, R, C) ==
    Then(flat, LAMBDA f : EagerMat([r \in 1..R |-> [c \in 1..C |-> f[(r - 1) * C + c]]]))

(* elementwise operation of two 2-D tensors under torch broadcasting *)
BroadcastOK(A, Bm) ==
    /\ NumRows(A) = NumRows(Bm) \/ NumRows(A) = 1 \/ NumRows(Bm) = 1
    /\ NumCols(A) = NumCols(Bm) \/ NumCols(A) = 1 \/ NumCols(Bm) = 1

Max(a, b) == IF a < b THEN b ELSE a

BroadcastOp(Op(_, _), A, Bm) ==
    Then2(A, Bm, LAMBDA X, Y :
        EagerMat([r \in 1..Max(NumRows(X), NumRows(Y)) |->
            [c \in 1..Max(NumCols(X), NumCols(Y)) |->
                Op(X[IF NumRows(X) = 1 THEN 1 ELSE r][IF NumCols(X) = 1 THEN 1 ELSE c],
                   Y[IF NumRows(Y) = 1 THEN 1 ELSE r][IF NumCols(Y) = 1 THEN 1 ELSE c])]]))

----------------------------------------------------------------------------
(* The operator ObservationCov.forward: ray transform, image covariance and
   noise term.  The neural tangent map is the identity and the prior is
   diagonal with one log-variance per weight group. *)

NumGroups == 2
GroupOf(j) == IF 2 * j <= ObsNumel THEN 1 ELSE 2

ParameterCovApply(w, lv) == [j \in 1..Len(w) |-> Exp(lv[GroupOf(j)]) * w[j]]

Vjp(x) == x
Jvp(w) == w

ImageCovApply(x, lv) == Jvp(ParameterCovApply(Vjp(x), lv))

TrafoAdjoint(T, y) == MatVec(Transpose(T), y)
TrafoApply(T, x) == MatVec(T, x)

ObservationCovForward(T, lv, lnv, batch, use_noise_variance) ==
    [b \in 1..Len(batch) |->
        Then(batch[b], LAMBDA vec :
        Then(Eager(TrafoAdjoint(T, vec)), LAMBDA x_im :
        Then(Eager(ImageCovApply(x_im, lv)), LAMBDA y_im :
        Then(Eager(TrafoApply(T, y_im)), LAMBDA prior :
        IF use_noise_variance
        THEN Eager([j \in 1..Len(vec) |-> prior[j] + Exp(lnv) * vec[j]])
        ELSE prior))))]

----------------------------------------------------------------------------
(* get_batched_low_rank_observation_cov_basis, lines 97-118: the batched
   probing loop *)

CeilDiv(a, b) == (a + b - 1) \div b

NumBatches(k, p, batch_size) == CeilDiv(k + p, batch_size)

Min(a, b) == IF a < b THEN a ELSE b

(* python slice mat[lo:hi] of a 0-based row range, clamped to the length *)
SliceRows(mat, lo, hi) ==
    LET a == Min(lo, Len(mat))
        b == Min(hi, Len(mat))
    IN  IF b <= a THEN <<>> ELSE SubSeq(mat, a + 1, b)

PadRows(rnd_vect, batch_size) ==
    IF Len(rnd_vect) < batch_size
    THEN rnd_vect \o [r \in 1..(batch_size - Len(rnd_vect)) |-> ZeroVec(ObsNumel)]
    ELSE rnd_vect

(* the probing call with the noise term left in *)
ProbeForwardWithNoise(T, lv, lnv, rnd_vect) ==
    ObservationCovForward(T, lv, lnv, rnd_vect, TRUE)

ProbeForward(T, lv, lnv, rnd_vect) == ObservationCovForward(T, lv, lnv, rnd_vect, FALSE)

(* the padded rows are kept *)
KeepPadding(v_out, eff_batch_size, batch_size) == v_out

DiscardPadding(v_out, eff_batch_size, batch_size) ==
    IF eff_batch_size < batch_size THEN SubSeq(v_out, 1, eff_batch_size) ELSE v_out

(* one iteration of the loop: the batch result appended to v_cov_obs_mat *)
ProbeBatch(T, lv, lnv, rm, batch_size, n) ==
    LET rnd_vect == SliceRows(rm, n * batch_size, (n + 1) * batch_size)
        eff_batch_size == Len(rnd_vect)
        v_out == ProbeForward(T, lv, lnv, PadRows(rnd_vect, batch_size))
    IN  DiscardPadding(v_out, eff_batch_size, batch_size)

RECURSIVE Cat(_)
Cat(batches) == IF batches = <<>> THEN <<>> ELSE Head(batches) \o Cat(Tail(batches))

----------------------------------------------------------------------------
(* lines 119-130: QR, the small solve, the eigendecomposition, truncation
   and clamping *)

(* torch.linalg.qr, reduced: Q has orthonormal columns spanning the columns
   of Y (Gram-Schmidt; a Householder QR differs by column signs only, which
   cancel in U = Q V) *)
RECURSIVE GramSchmidt(_, _)
GramSchmidt(cols, acc) ==
    IF cols = <<>> THEN acc
    ELSE LET y == Head(cols)
             w == [j \in 1..Len(y) |->
                      y[j] - SumSeq([q \in 1..Len(acc) |-> Dot(acc[q], y) * acc[q][j]])]
             nrm == ISqrt(Dot(w, w))
         IN  GramSchmidt(Tail(cols), Append(acc, [j \in 1..Len(y) |-> DivExact(w[j], nrm)]))

QR(Y) == Transpose(GramSchmidt(Transpose(Y), <<>>))

(* a reshaping that overwrites the stored matrix *)
ViewZeroed(rm) == [r \in 1..Len(rm) |-> ZeroVec(Len(rm[1]))]

(* self.random_matrix.view(shape[0], -1): the same storage, rows unchanged *)
ViewFlat(rm) == rm

(* torch.linalg.solve(G, H) = G^-1 H for a nonsingular G (a singular G raises) *)
Solve(G, H) ==
    LET N == MatMul(Adjugate(G), H)
        dt == Det(G)
    IN  [r \in 1..Len(N) |-> [c \in 1..Len(N[r]) |-> DivExact(N[r][c], dt)]]

(* torch.linalg.eig(B): l pairs (eigenvalue, eigenvector) with B v = lambda v
   and V invertible.  The order of the pairs is not specified, and within the
   eigenspace of a repeated eigenvalue neither is the basis; both are left
   open.  An eigenvector is carried as an integer direction standing for the
   unit vector along it. *)
EigCandidates == 0..(2 * Exp(CHOOSE x \in LogVals : \A y \in LogVals : y <= x))

UnitVec(l, a) == [j \in 1..l |-> IF j = a THEN 1 ELSE 0]

Directions(l) ==
    {UnitVec(l, a) : a \in 1..l}
        \cup {[j \in 1..l |-> IF j <= 2 THEN 1 ELSE 0] : a \in 2..l}

EigPairs(Bm) ==
    {pr \in EigCandidates \X Directions(Len(Bm)) :
        MatVec(Bm, pr[2]) = [j \in 1..Len(Bm) |-> pr[1] * pr[2][j]]}

Eig(Bm) ==
    LET l == Len(Bm)
        P == EigPairs(Bm)
    IN  {[L |-> [j \in 1..l |-> f[j][1]], V |-> Transpose([j \in 1..l |-> f[j][2]])] :
            f \in {g \in [1..l -> P] :
                      /\ \A a \in 1..l : \A b \in 1..l : a # b => g[a][2] # g[b][2]
                      /\ Det([j \in 1..l |-> g[j][2]]) # 0}}

(* U[:, :k] and L.real[:k] (the spectrum here is real) *)
TakeCols(U, k) == [r \in 1..Len(U) |-> SubSeq(U[r], 1, Min(k, Len(U[r])))]
TakeFirst(Ls, k) == SubSeq(Ls, 1, Min(k, Len(Ls)))

(* a floor that removes the small eigenvalues instead of raising them *)
ClampMinDropsSmall(Ls, e) == SelectSeq(Ls, LAMBDA x : x >= e)

(* .clamp_(min=eps) *)
ClampMin(Ls, e) == [j \in 1..Len(Ls) |-> IF Ls[j] < e THEN e ELSE Ls[j]]

(* lines 97-118 and 119-122 as functions of the object's fields *)
AssembleY(T, lv, lnv, rm, batch_size) ==
    Cat([n \in 1..CeilDiv(Len(rm), batch_size) |->
            ProbeBatch(T, lv, lnv, rm, batch_size, n - 1)])

SmallMatrix(T, lv, lnv, rm, batch_size) ==
    LET Y == Transpose(AssembleY(T, lv, lnv, rm, batch_size))
        Qm == QR(Y)
    IN  Solve(MatMul(ViewFlat(rm), Qm), MatMul(Transpose(Y), Qm))

----------------------------------------------------------------------------
(* Construction: LowRankObservationCov.__init__ *)

Identity(n) == [r \in 1..n |-> UnitVec(n, r)]

TrafoSet ==
    { Identity(ObsNumel),
      << <<1, 0, 0, 0>>, <<0, 0, -1, 0>>, <<0, 1, 0, 0>>, <<0, 0, 0, 1>> >> }

(* samples of torch.randn: full-rank matrices for which the decomposition
   stays in exact integers *)
RandnSamples ==
    { << <<1, 0, 0, 0>>, <<1, 1, 0, 0>>, <<0, 1, 1, 0>>, <<0, 0, 1, 1>> >>,
      << <<0, 0, 2, 0>>, <<1, 0, 1, 0>>, <<0, -1, 0, 0>>, <<1, 0, 0, 1>> >> }

AssembleRandomMatrix(k, p) == {SubSeq(W, 1, k + p) : W \in RandnSamples}

EpsVals == {1, 2}

RankDims == (1..MaxRank) \cup {ObsNumel}

(* no call of linear_cg in progress: the frame's slots are empty *)
NoTensor == <<>>

NoCgState ==
    [x |-> NoTensor, r |-> NoTensor, p |-> NoTensor, rz |-> NoTensor,
     bsq |-> NoTensor, k |-> 0, converged |-> FALSE]

(* no operator built *)
NoClosure == [shape |-> <<>>, is_hermitian |-> FALSE]

CgIdle ==
    /\ cg_pc = "idle"
    /\ v = NoTensor /\ closure = NoClosure
    /\ preconditioner = NoValue /\ max_cg_iter = 0
    /\ rtol = Zero /\ v_norm = NoTensor /\ v_scaled = NoTensor
    /\ cg_state = NoCgState /\ solve_T = NoTensor /\ residual_norm = NoTensor
    /\ solve = NoTensor /\ exc = NoValue

(* no gradient estimate in progress *)
NoGraph == [v_flat |-> {}, v_obs_left_flat |-> {}, v_left |-> {}, v_right |-> {}]

NoLinearCgKwargs == [max_iter |-> 0, rtol |-> [n |-> 0, d |-> 1]]

GeIdle ==
    /\ ge_pc = "idle"
    /\ assertions_enabled = FALSE
    /\ ge_num_probes = 0
    /\ ge_preconditioner = NoValue
    /\ linear_cg_kwargs = NoLinearCgKwargs
    /\ parameters = <<>> /\ image_cov_parameters = <<>>
    /\ v_flat = NoTensor /\ v_obs_left_flat = NoTensor
    /\ v_left = NoTensor /\ v_right = NoTensor
    /\ grads = <<>>
    /\ requires_grad = NoGraph
    /\ ge_exc = NoValue

(* no weights_linearization in progress *)
NoNetwork == [use_sigmoid |-> FALSE, jac |-> <<>>, bias |-> <<>>]

NoExpansion == [with_sigmoid |-> FALSE, gprior |-> FALSE, jac |-> <<>>]

NoStorage == [data |-> <<>>, storage |-> "none"]

NoOptimKwargs == [iterations |-> 0]

NoOptimizer == [lr |-> [n |-> 0, d |-> 1], history |-> <<>>]

NoWlResult == [lin_weights |-> <<>>, lin_recon |-> <<>>]

WlIdle ==
    /\ wl_pc = "idle"
    /\ nn_model = NoNetwork
    /\ wl_trafo = <<>>
    /\ neural_basis_expansion = NoExpansion
    /\ map_weights = NoStorage
    /\ observation = <<>>
    /\ optim_kwargs = NoOptimKwargs
    /\ recon_no_activation = <<>>
    /\ lin_weights_fd = NoStorage
    /\ optimizer = NoOptimizer
    /\ wl_iter = 0
    /\ lin_recon = <<>>
    /\ grads_vec = <<>>
    /\ wl_ret = NoWlResult
    /\ wl_exc = NoValue
    /\ wl_line = 0
    /\ wl_site = NoValue

(* no run of coordinator in progress *)
NoCfg ==
    [num_images |-> 0, skip_first_images |-> 0, use_linearized_weights |-> FALSE,
     use_sigmoid |-> FALSE, len_dataset |-> 0]

ExIdle ==
    /\ ex_pc = "idle"
    /\ cfg = NoCfg
    /\ ex_i = 0
    /\ ex_files = {}
    /\ ex_exc = NoValue
    /\ ex_line = 0

(* no preconditioner built *)
NoBasis == [trafo |-> <<>>, log_variance |-> <<>>]

(* gprior.log_variance as the prior's constructor leaves it: a registered
   nn.Parameter *)
InitialHyperparameter == [storage |-> "log_variance", registered |-> TRUE]

PreIdle ==
    /\ gprior_log_variance = InitialHyperparameter
    /\ pre_basis = NoBasis
    /\ pre_updates = 0

(* no sample_based_marginal_likelihood_optim in progress *)
NoSbOptimKwargs == [iterations |-> 0, cg_preconditioner |-> NoValue]

SbIdle ==
    /\ sb_pc = "idle"
    /\ sb_optim_kwargs = NoSbOptimKwargs
    /\ sb_i = 0
    /\ sb_written = {}
    /\ sb_files = {}
    /\ sb_exc = NoValue
    /\ sb_line = 0

LRInit ==
    /\ trafo \in TrafoSet
    /\ log_variance \in [1..NumGroups -> LogVals]
    /\ log_noise_variance \in LogVals
    /\ low_rank_rank_dim \in RankDims
    /\ oversampling_param \in 0..MaxOversampling
    /\ low_rank_rank_dim + oversampling_param <= ObsNumel
    /\ vec_batch_size \in 1..MaxBatch
    /\ random_matrix \in AssembleRandomMatrix(low_rank_rank_dim, oversampling_param)
    /\ lr_pc = "idle"
    /\ eps = NoValue
    /\ i = 0
    /\ v_cov_obs_mat = <<>>
    /\ Q = NoValue /\ B = NoValue /\ L = NoValue /\ V = NoValue
    /\ ret = NoValue
    /\ CgIdle
    /\ GeIdle
    /\ WlIdle
    /\ ExIdle
    /\ PreIdle
    /\ SbIdle

(* the call starts: lines 97-99 *)
GetBasisCall ==
    /\ lr_pc = "idle"
    /\ cg_pc = "idle"
    /\ \E e \in EpsVals : eps' = e
    /\ lr_pc' = "loop"
    /\ i' = 0
    /\ v_cov_obs_mat' = <<>>
    /\ UNCHANGED <<objVars, Q, B, L, V, ret, cgVars, geVars, wlVars>>
    /\ UNCHANGED <<exVars, preVars, sbVars>>

(* one iteration of the probing loop: lines 100-116 *)
GetBasisBatch ==
    /\ lr_pc = "loop"
    /\ i < NumBatches(low_rank_rank_dim, oversampling_param, vec_batch_size)
    /\ v_cov_obs_mat' = Append(v_cov_obs_mat,
           ProbeBatch(trafo, log_variance, log_noise_variance,
                      random_matrix, vec_batch_size, i))
    /\ i' = i + 1
    /\ UNCHANGED <<objVars, lr_pc, eps, Q, B, L, V, ret, cgVars, geVars, wlVars>>
    /\ UNCHANGED <<exVars, preVars, sbVars>>

(* after the loop: lines 117-122, up to the small matrix B *)
GetBasisFactor ==
    /\ lr_pc = "loop"
    /\ i = NumBatches(low_rank_rank_dim, oversampling_param, vec_batch_size)
    /\ LET Y == Transpose(Cat(v_cov_obs_mat))
           Qm == QR(Y)
           rm == ViewFlat(random_matrix)
           G == MatMul(rm, Qm)
       IN  /\ random_matrix' = rm
           /\ Q' = Qm
           /\ IF Det(G) = 0
              THEN /\ lr_pc' = "error"
                   /\ B' = B
              ELSE /\ lr_pc' = "eig"
                   /\ B' = Solve(G, MatMul(Transpose(Y), Qm))
    /\ UNCHANGED <<trafo, log_variance, log_noise_variance, low_rank_rank_dim,
                   oversampling_param, vec_batch_size, eps, i, v_cov_obs_mat, L, V, ret,
                   cgVars, geVars, wlVars>>
    /\ UNCHANGED <<exVars, preVars, sbVars>>

(* lines 123-130: eigendecomposition, U = Q V, truncation, clamping *)
GetBasisDecompose ==
    /\ lr_pc = "eig"
    /\ \E r \in Eig(B) :
          /\ L' = r.L
          /\ V' = r.V
          /\ ret' = [U |-> TakeCols(MatMul(Q, r.V), low_rank_rank_dim),
                     L |-> ClampMin(TakeFirst(r.L, low_rank_rank_dim), eps)]
    /\ lr_pc' = "done"
    /\ UNCHANGED <<objVars, eps, i, v_cov_obs_mat, Q, B, cgVars, geVars, wlVars>>
    /\ UNCHANGED <<exVars, preVars, sbVars>>

(* the pair is handed to the caller and the call's frame is gone *)
GetBasisReturn ==
    /\ lr_pc = "done"
    /\ lr_pc' = "idle"
    /\ eps' = NoValue
    /\ i' = 0
    /\ v_cov_obs_mat' = <<>>
    /\ Q' = NoValue /\ B' = NoValue /\ L' = NoValue /\ V' = NoValue
    /\ ret' = NoValue
    /\ UNCHANGED <<objVars, cgVars, geVars, wlVars>>
    /\ UNCHANGED <<exVars, preVars, sbVars>>

(* between calls the optimizer writes the hyperparameters in place *)
SetLogVariance ==
    /\ lr_pc = "idle"
    /\ cg_pc = "idle"
    /\ ge_pc = "idle"
    /\ sb_pc = "idle"
    /\ \E g \in 1..NumGroups, x \in LogVals :
          /\ x # log_variance[g]
          /\ log_variance' = [log_variance EXCEPT ![g] = x]
    /\ UNCHANGED <<trafo, log_noise_variance, low_rank_rank_dim, oversampling_param,
                   vec_batch_size, random_matrix, lrVars, cgVars, geVars, wlVars>>
    /\ UNCHANGED <<exVars, preVars, sbVars>>

SetLogNoiseVariance ==
    /\ lr_pc = "idle"
    /\ cg_pc = "idle"
    /\ ge_pc = "idle"
    /\ sb_pc = "idle"
    /\ \E x \in LogVals :
          /\ x # log_noise_variance
          /\ log_noise_variance' = x
    /\ UNCHANGED <<trafo, log_variance, low_rank_rank_dim, oversampling_param,
                   vec_batch_size, random_matrix, lrVars, cgVars, geVars, wlVars>>
    /\ UNCHANGED <<exVars, preVars, sbVars>>

LRNext ==
    \/ GetBasisCall
    \/ GetBasisBatch
    \/ GetBasisFactor
    \/ GetBasisDecompose
    \/ GetBasisReturn
    \/ SetLogVariance
    \/ SetLogNoiseVariance

LRSpec == LRInit /\ [][LRNext]_vars

----------------------------------------------------------------------------
(* Properties of the low-rank basis *)

Column(A, c) == [r \in 1..Len(A) |-> A[r][c]]

(* C1: every returned L has exactly low_rank_rank_dim entries, each >= eps;
   an eigenvalue estimate below eps is raised to eps and stays in the result *)
C1_EigenvaluesFloored ==
    lr_pc = "done" =>
        /\ Len(ret.L) = low_rank_rank_dim
        /\ \A j \in 1..low_rank_rank_dim :
              /\ ret.L[j] >= eps
              /\ ret.L[j] = IF L[j] < eps THEN eps ELSE L[j]

C1_Witness ==
    /\ lr_pc = "done"
    /\ \E j \in 1..low_rank_rank_dim : L[j] < eps /\ ret.L[j] = eps
    /\ \E j \in 1..low_rank_rank_dim : L[j] >= eps /\ ret.L[j] = L[j]

(* C2: the returned eigenpairs are the low_rank_rank_dim largest of the
   k + oversampling eigenpairs of B, in whatever order eig lists them, and
   each returned column of U belongs to its eigenvalue *)
C2_TopEigenpairsReturned ==
    lr_pc = "done" =>
        /\ \A a \in 1..low_rank_rank_dim :
              \A b \in (low_rank_rank_dim + 1)..Len(L) : L[a] >= L[b]
        /\ \A a \in 1..low_rank_rank_dim :
              /\ MatVec(B, Column(V, a)) = [j \in 1..Len(B) |-> L[a] * V[j][a]]
              /\ Column(ret.U, a) = MatVec(Q, Column(V, a))

(* C3: the columns of the returned U are orthonormal; columns are carried as
   directions, so this states that distinct columns are orthogonal *)
C3_ColumnsOrthogonal ==
    lr_pc = "done" =>
        \A a \in 1..low_rank_rank_dim : \A b \in 1..low_rank_rank_dim :
            a # b => Dot(Column(ret.U, a), Column(ret.U, b)) = 0

(* C4: the basis is computed from the prior-only operator: Q and B, from
   which eig, truncation and clamping derive (U, L), come out of the probing
   loop the same for every value of log_noise_variance; with identity maps, unit prior variances,
   k = M and no oversampling every eigenvalue is the prior variance 1 *)
C4_NoiseExcluded ==
    /\ lr_pc = "eig" =>
          \A lnv \in LogVals :
              /\ B = SmallMatrix(trafo, log_variance, lnv, random_matrix, vec_batch_size)
              /\ Q = QR(Transpose(AssembleY(trafo, log_variance, lnv,
                                            random_matrix, vec_batch_size)))
    /\ ( /\ lr_pc = "done"
         /\ trafo = Identity(ObsNumel)
         /\ \A g \in 1..NumGroups : log_variance[g] = 0
         /\ low_rank_rank_dim = ObsNumel
         /\ oversampling_param = 0 )
       => \A j \in 1..ObsNumel : L[j] = 1

C4_Witness ==
    /\ lr_pc = "done"
    /\ trafo = Identity(ObsNumel)
    /\ \A g \in 1..NumGroups : log_variance[g] = 0
    /\ log_noise_variance = 1
    /\ low_rank_rank_dim = ObsNumel
    /\ oversampling_param = 0
    /\ \A j \in 1..ObsNumel : L[j] = 1

(* C5: the probing loop collects exactly k + oversampling results, result j
   being the operator applied to row j of the random matrix, in row order;
   padding leaves no trace and the batch size does not matter *)
C5_BatchedProbing ==
    /\ lr_pc = "loop" =>
          Len(Cat(v_cov_obs_mat)) =
              Min(i * vec_batch_size, low_rank_rank_dim + oversampling_param)
    /\ lr_pc = "eig" =>
          /\ Len(Cat(v_cov_obs_mat)) = low_rank_rank_dim + oversampling_param
          /\ \A j \in 1..(low_rank_rank_dim + oversampling_param) :
                Cat(v_cov_obs_mat)[j] =
                    ProbeForward(trafo, log_variance, log_noise_variance,
                                 <<random_matrix[j]>>)[1]
          /\ Cat(v_cov_obs_mat) =
                AssembleY(trafo, log_variance, log_noise_variance, random_matrix, 1)

C5_Witness ==
    /\ lr_pc = "eig"
    /\ vec_batch_size > 1
    /\ (low_rank_rank_dim + oversampling_param) % vec_batch_size # 0
    /\ Len(Cat(v_cov_obs_mat)) = low_rank_rank_dim + oversampling_param

(* C6: the random matrix has shape (k + oversampling, M) from construction
   on, and no step of any basis computation changes it *)
C6_RandomMatrixFixed ==
    /\ Len(random_matrix) = low_rank_rank_dim + oversampling_param
    /\ \A r \in 1..Len(random_matrix) : Len(random_matrix[r]) = ObsNumel
    /\ [][random_matrix' = random_matrix]_vars

C6_Witness ==
    /\ lr_pc = "done"
    /\ Len(random_matrix) = low_rank_rank_dim + oversampling_param
    /\ B = SmallMatrix(trafo, log_variance, log_noise_variance, random_matrix, vec_batch_size)

----------------------------------------------------------------------------
(* linear_cg, observation_cov_log_det_grad.py lines 20-58 *)

MaxProbes == 2
MaxCgIter == 2

(* observation_cov(batch): forward with the noise term, applied to each row of
   a rational batch through its common denominator; a NaN entry makes the
   whole row NaN *)
RECURSIVE CommonDen(_)
CommonDen(row) == IF row = <<>> THEN 1 ELSE LCM(Head(row).d, CommonDen(Tail(row)))

ObservationCovRow(T, lv, lnv, row) ==
    IF \E j \in 1..Len(row) : IsNaN(row[j])
    THEN [j \in 1..Len(row) |-> NaN]
    ELSE Then(CommonDen(row), LAMBDA D :
         Then(Eager([j \in 1..Len(row) |-> row[j].n * (D \div row[j].d)]), LAMBDA z :
         Then(Eager(ObservationCovForward(T, lv, lnv, <<z>>, TRUE)[1]), LAMBDA out :
         Eager([j \in 1..Len(out) |-> Rat(out[j], D)]))))

ObservationCovCall(T, lv, lnv, batch) ==
    Eager([b \in 1..Len(batch) |-> Then(batch[b], LAMBDA row : ObservationCovRow(T, lv, lnv, row))])

(* the closure with the first transposition left out *)
ClosureFuncNoTranspose(T, lv, lnv, num_probes, x) ==
    Then(Flatten(x), LAMBDA flat :
    Then(Reshape(flat, num_probes, ObsNumel), LAMBDA batch :
    Then(ObservationCovCall(T, lv, lnv, batch), LAMBDA out :
    Then(Flatten(out), LAMBDA oflat :
    Then(Reshape(oflat, num_probes, ObsNumel), LAMBDA view :
    EagerMat(Transpose(view)))))))

(* an operator that does not declare itself Hermitian *)
XitorchOperatorNotHermitian(size) ==
    [shape |-> <<size, size>>, is_hermitian |-> FALSE]

(* lines 9-12: xitorch_operator.__init__,
   super().__init__(shape=(size,size), is_hermitian=True, ...) *)
XitorchOperator(size) ==
    [shape |-> <<size, size>>, is_hermitian |-> TRUE]

(* lines 28-34: the operator handed to cg,
   observation_cov(v.T.reshape(1, num_probes, *obs_shape))
       .view(num_probes, observation_cov.shape[0]).T *)
ClosureFunc(T, lv, lnv, num_probes, x) ==
    Then(EagerMat(Transpose(x)), LAMBDA xT :
    Then(Flatten(xT), LAMBDA flat :
    Then(Reshape(flat, num_probes, ObsNumel), LAMBDA batch :
    Then(ObservationCovCall(T, lv, lnv, batch), LAMBDA out :
    Then(Flatten(out), LAMBDA oflat :
    Then(Reshape(oflat, num_probes, ObsNumel), LAMBDA view :
    EagerMat(Transpose(view))))))))

(* line 42: torch.norm(v, 2, dim=0, keepdim=True), shape (1, num_probes) *)
ColumnNorms(vm) ==
    << [j \in 1..NumCols(vm) |->
          FromInt(ISqrt(SumSeq([m \in 1..NumRows(vm) |-> vm[m][j] * vm[m][j]])))] >>

(* line 43: v.div(v_norm) *)
ScaleColumns(vm, nrm) == BroadcastOp(RDiv, ToRat(vm), nrm)

(* a budget one larger than asked for *)
CgMaxNiterPlusOne(m) == m + 1

(* line 50: max_niter=max_cg_iter *)
CgMaxNiter(m) == m

(* line 57: solve_T.T * v_norm *)
ScaleBack(st, nrm) == BroadcastOp(RMul, Transpose(st), nrm)

(* The solver cg of xitorch_solvers: conjugate gradients on all columns at
   once, started at zero, without preconditioner.  rz holds the squared
   residual norm of each column and bsq the squared norm of each right-hand
   side. *)
CgStart(Bm) ==
    LET cols == Transpose(Bm)
        rz == [j \in 1..Len(cols) |-> RDot(cols[j], cols[j])]
    IN  [x |-> [m \in 1..NumRows(Bm) |-> [j \in 1..NumCols(Bm) |-> Zero]],
         r |-> Bm, p |-> Bm, rz |-> rz, bsq |-> rz, k |-> 0, converged |-> FALSE]

(* eps stands in for a zero denominator; the numerator is then zero too *)
SafeDiv(a, b) ==
    Then2(a, b, LAMBDA x, y :
        IF IsNaN(x) \/ IsNaN(y) THEN NaN ELSE IF y.n = 0 THEN Zero ELSE RDiv(x, y))

(* every column's residual norm is below rtol times the norm of its
   right-hand side (atol = 1e-8 lies below rtol * ||b|| for the unit-norm
   right-hand sides and the tolerances of the model) *)
RelResidualBelow(rz, bsq, rt) ==
    \A j \in 1..Len(rz) : RLess(rz[j], RMul(RMul(rt, rt), bsq[j]))

CgIteration(st, T, lv, lnv, rt) ==
    Then(EagerMat(Transpose(ClosureFunc(T, lv, lnv, NumCols(st.p), st.p))), LAMBDA Ap :
    Then(EagerMat(Transpose(st.p)), LAMBDA pc :
    Then(EagerMat(Transpose(st.x)), LAMBDA xc :
    Then(EagerMat(Transpose(st.r)), LAMBDA rc :
    Then(Eager([j \in 1..Len(pc) |-> SafeDiv(st.rz[j], RDot(pc[j], Ap[j]))]), LAMBDA alpha :
    Then(EagerMat([j \in 1..Len(pc) |-> [m \in 1..Len(pc[j]) |->
             RAdd(xc[j][m], RMul(alpha[j], pc[j][m]))]]), LAMBDA xn :
    Then(EagerMat([j \in 1..Len(pc) |-> [m \in 1..Len(pc[j]) |->
             RSub(rc[j][m], RMul(alpha[j], Ap[j][m]))]]), LAMBDA rn :
    Then(Eager([j \in 1..Len(pc) |-> RDot(rn[j], rn[j])]), LAMBDA rzn :
    Then(Eager([j \in 1..Len(pc) |-> SafeDiv(rzn[j], st.rz[j])]), LAMBDA beta :
    Then(EagerMat([j \in 1..Len(pc) |-> [m \in 1..Len(pc[j]) |->
             RAdd(rn[j][m], RMul(beta[j], pc[j][m]))]]), LAMBDA pn :
    [x |-> EagerMat(Transpose(xn)), r |-> EagerMat(Transpose(rn)),
     p |-> EagerMat(Transpose(pn)),
     rz |-> rzn, bsq |-> st.bsq, k |-> st.k + 1,
     converged |-> RelResidualBelow(rzn, st.bsq, rt)]))))))))))

(* right-hand-side columns: norm 2, norm 1, and the zero column *)
RhsCols == { <<1, 1, 1, 1>>, <<1, 0, 0, 0>>, <<0, 0, 0, 0>> }

RtolVals == { Rat(1, 1000), Rat(1, 2) }

Preconditioners == { NoValue, "LowRankPreC" }

(* an ObservationCov with no call in progress *)
CGInit ==
    /\ trafo \in TrafoSet
    /\ log_variance \in [1..NumGroups -> LogVals]
    /\ log_noise_variance \in LogVals
    /\ low_rank_rank_dim = NoValue
    /\ oversampling_param = NoValue
    /\ vec_batch_size = NoValue
    /\ random_matrix = NoValue
    /\ lr_pc = "idle"
    /\ eps = NoValue
    /\ i = 0
    /\ v_cov_obs_mat = <<>>
    /\ Q = NoValue /\ B = NoValue /\ L = NoValue /\ V = NoValue
    /\ ret = NoValue
    /\ CgIdle
    /\ GeIdle
    /\ WlIdle
    /\ ExIdle
    /\ PreIdle
    /\ SbIdle

(* lines 27-43: the closure, the preconditioner check, the normalization *)
LinearCgCall ==
    /\ cg_pc = "idle"
    /\ lr_pc = "idle"
    /\ \E np \in 1..MaxProbes, pre \in Preconditioners,
          mi \in 1..MaxCgIter, rt \in RtolVals :
         \E cols \in [1..np -> RhsCols] :
            /\ v' = Transpose(cols)
            /\ closure' = XitorchOperator(obs_shape)
            /\ preconditioner' = pre
            /\ max_cg_iter' = mi
            /\ rtol' = rt
            /\ IF pre # NoValue
               THEN /\ cg_pc' = "raised"
                    /\ exc' = "NotImplementedError"
                    /\ UNCHANGED <<v_norm, v_scaled, cg_state>>
               ELSE /\ v_norm' = ColumnNorms(v')
                    /\ v_scaled' = ScaleColumns(v', v_norm')
                    /\ cg_state' = CgStart(v_scaled')
                    /\ cg_pc' = "cg"
                    /\ UNCHANGED exc
    /\ UNCHANGED <<geVars, wlVars, objVars, lrVars, solve_T, residual_norm, solve>>
    /\ UNCHANGED <<exVars, preVars, sbVars>>

(* one iteration of the solver's loop *)
CgIterate ==
    /\ cg_pc = "cg"
    /\ cg_state.k < CgMaxNiter(max_cg_iter)
    /\ ~cg_state.converged
    /\ cg_state' = CgIteration(cg_state, trafo, log_variance, log_noise_variance, rtol)
    /\ UNCHANGED <<geVars, wlVars, objVars, lrVars, cg_pc, v, closure, preconditioner, max_cg_iter, rtol,
                   v_norm, v_scaled, solve_T, residual_norm, solve, exc>>
    /\ UNCHANGED <<exVars, preVars, sbVars>>

(* lines 45-55: cg returns its iterate and residual norms *)
CgExit ==
    /\ cg_pc = "cg"
    /\ cg_state.converged \/ cg_state.k >= CgMaxNiter(max_cg_iter)
    /\ solve_T' = cg_state.x
    /\ residual_norm' = cg_state.rz
    /\ cg_pc' = "solved"
    /\ UNCHANGED <<geVars, wlVars, objVars, lrVars, v, closure, preconditioner, max_cg_iter, rtol,
                   v_norm, v_scaled, cg_state, solve, exc>>
    /\ UNCHANGED <<exVars, preVars, sbVars>>

(* lines 57-58 *)
LinearCgReturn ==
    /\ cg_pc = "solved"
    /\ IF BroadcastOK(Transpose(solve_T), v_norm)
       THEN /\ solve' = ScaleBack(solve_T, v_norm)
            /\ cg_pc' = "returned"
            /\ UNCHANGED exc
       ELSE /\ exc' = "RuntimeError"
            /\ cg_pc' = "raised"
            /\ UNCHANGED solve
    /\ UNCHANGED <<geVars, wlVars, objVars, lrVars, v, closure, preconditioner, max_cg_iter, rtol,
                   v_norm, v_scaled, cg_state, solve_T, residual_norm>>
    /\ UNCHANGED <<exVars, preVars, sbVars>>

(* the caller has the result or the exception; the frame is gone *)
LinearCgDone ==
    /\ cg_pc \in {"returned", "raised"}
    /\ cg_pc' = "idle"
    /\ v' = NoTensor /\ closure' = NoClosure
    /\ preconditioner' = NoValue /\ max_cg_iter' = 0
    /\ rtol' = Zero /\ v_norm' = NoTensor /\ v_scaled' = NoTensor
    /\ cg_state' = NoCgState /\ solve_T' = NoTensor /\ residual_norm' = NoTensor
    /\ solve' = NoTensor /\ exc' = NoValue
    /\ UNCHANGED <<geVars, wlVars, objVars, lrVars>>
    /\ UNCHANGED <<exVars, preVars, sbVars>>

CGNext ==
    \/ LinearCgCall
    \/ CgIterate
    \/ CgExit
    \/ LinearCgReturn
    \/ LinearCgDone
    \/ SetLogVariance
    \/ SetLogNoiseVariance

(* the solve is sequential code: a step that can be taken is taken *)
CGSpec ==
    /\ CGInit
    /\ [][CGNext]_vars
    /\ WF_vars(CgIterate)
    /\ WF_vars(CgExit)
    /\ WF_vars(LinearCgReturn)

----------------------------------------------------------------------------
(* Properties of linear_cg *)

NonzeroColumns(vm) == \A j \in 1..NumCols(vm) : \E m \in 1..NumRows(vm) : vm[m][j] # 0

(* the operator applied by the closure is c * I for some c > 0 *)
IsScalarOperator ==
    \E c \in 1..(2 * Exp(1)) :
        ObservationCovForward(trafo, log_variance, log_noise_variance,
                              Identity(ObsNumel), TRUE)
            = [r \in 1..ObsNumel |-> [j \in 1..ObsNumel |-> IF r = j THEN c ELSE 0]]

(* C7: a call with a preconditioner runs the preconditioned solve and returns;
   it does not end in NotImplementedError *)
C7_PreconditionedSolveReturns ==
    ~(cg_pc = "raised" /\ preconditioner # NoValue /\ exc = "NotImplementedError")

(* C8: for right-hand sides with nonzero columns the call returns a solution
   in the layout (M, num_probes) of v, column j being the solver's column j
   times the norm of v's column j *)
C8_SolutionLayout ==
    (cg_pc \in {"returned", "raised"} /\ preconditioner = NoValue /\ NonzeroColumns(v)) =>
        /\ cg_pc = "returned"
        /\ NumRows(solve) = NumRows(v)
        /\ NumCols(solve) = NumCols(v)
        /\ \A m \in 1..NumRows(v) : \A j \in 1..NumCols(v) :
              solve[m][j] = RMul(solve_T[m][j], v_norm[1][j])

(* C9: the solve performs at most max_cg_iter iterations, stops as soon as
   every relative residual is below rtol, ends (converged or not) by handing
   back its iterate and residual norms without an exception, is not
   restarted, and always ends *)
C9_CgTerminates ==
    /\ [](cg_pc \in {"cg", "solved"} => cg_state.k <= max_cg_iter)
    /\ [](cg_pc = "solved" =>
            /\ cg_state.converged \/ cg_state.k = max_cg_iter
            /\ solve_T = cg_state.x
            /\ residual_norm = cg_state.rz
            /\ exc = NoValue)
    /\ [][(cg_pc = "cg" /\ cg_state.k >= 1
             /\ RelResidualBelow(cg_state.rz, cg_state.bsq, rtol)) => cg_pc' = "solved"]_vars
    /\ [][cg_pc = "solved" => cg_pc' # "cg"]_vars
    /\ (cg_pc = "cg" ~> cg_pc = "solved")

(* the budget runs out on a finite residual and the solve still hands back *)
C9_Witness ==
    /\ cg_pc = "solved"
    /\ ~cg_state.converged
    /\ cg_state.k = max_cg_iter
    /\ \A j \in 1..Len(residual_norm) : ~IsNaN(residual_norm[j])
    /\ solve_T = cg_state.x

(* C10 as stated: on c * I the solve converges in exactly one iteration for
   every right-hand side *)
C10_OneIterationEveryRhs ==
    (cg_pc = "solved" /\ IsScalarOperator) =>
        (cg_state.converged /\ cg_state.k = 1)

(* C10: on c * I the solve converges in exactly one iteration for every
   right-hand side whose columns are all nonzero, for every c *)
C10_OneIterationNonzeroRhs ==
    (cg_pc = "solved" /\ IsScalarOperator /\ NonzeroColumns(v)) =>
        (cg_state.converged /\ cg_state.k = 1)

C10_Witness ==
    /\ cg_pc = "solved"
    /\ IsScalarOperator
    /\ NonzeroColumns(v)
    /\ NumCols(v) = 2
    /\ v[1][1] # v[2][1] \/ v[1][2] # v[2][2]
    /\ max_cg_iter >= 2
    /\ cg_state.converged
    /\ cg_state.k = 1

----------------------------------------------------------------------------
(* Properties of the operator handed to cg *)

(* the vectors a, b the symmetry is tested on: the unit vectors and two
   vectors of mixed entries *)
ObsVectors ==
    {UnitVec(ObsNumel, k) : k \in 1..ObsNumel}
        \cup {[k \in 1..ObsNumel |-> k - 2], [k \in 1..ObsNumel |-> 3 - 2 * k]}

(* <ObservationCov(a), b> with or without the noise term *)
CovInner(a, b, use_noise_variance) ==
    Dot(ObservationCovForward(trafo, log_variance, log_noise_variance,
                              <<a>>, use_noise_variance)[1], b)

(* C11: for every value of the hyperparameters and all a, b,
   <ObservationCov(a), b> = <a, ObservationCov(b)>, with and without the noise
   term, and the operator built for cg declares itself Hermitian *)
C11_SymmetricAndDeclaredHermitian ==
    /\ \A a \in ObsVectors : \A b \in ObsVectors :
          \A nz \in BOOLEAN : CovInner(a, b, nz) = CovInner(b, a, nz)
    /\ cg_pc # "idle" => closure.is_hermitian

(* an operator that is not a multiple of the identity is handed to cg as
   Hermitian, and the noise term changes its value *)
C11_Witness ==
    /\ cg_pc = "cg"
    /\ closure.is_hermitian
    /\ ~IsScalarOperator
    /\ \E a \in ObsVectors : CovInner(a, a, TRUE) # CovInner(a, a, FALSE)

(* equality of values that need not be of one type (an int against a tuple) *)
SameValue(x, y) == ToString(x) = ToString(y)

(* C12: the operator built by linear_cg is square of size M x M with
   M = observation_cov.shape[0], the number of rows of the right-hand sides *)
C12_OperatorIsMByM ==
    cg_pc # "idle" =>
        /\ SameValue(closure.shape, <<ObsNumel, ObsNumel>>)
        /\ NumRows(v) = ObsNumel

----------------------------------------------------------------------------
(* approx_observation_cov_log_det_grads: the Hutchinson estimate of the
   gradients of log|observation_cov|.  The hyperparameters are named by
   strings; a gradient is an exact rational. *)

(* Bound of the model: the largest num_probes of a call *)
MaxGradProbes == 4

(* linear_cg's defaults for max_cg_iter and rtol, lines 24-25 *)
DefaultMaxCgIter == 10
DefaultRtol == Rat(1, 1000)

ImNumel == NumCols(Identity(ObsNumel))

PriorParam(g) == IF g = 1 THEN "log_variance_1" ELSE "log_variance_2"

(* nn.Module.parameters() hands out a generator: it can be iterated and
   turned into a list, and it has no len() *)
Generator(items) == [type |-> "generator", items |-> items]
List(x) == x.items
HasLen(x) == x.type # "generator"

(* image_cov.parameters(): the prior's log-variances, one per weight group *)
ImageCovParameters == Generator([g \in 1..NumGroups |-> PriorParam(g)])

(* observation_cov.parameters(): its own log_noise_variance, then those of
   image_cov *)
ObservationCovParameters ==
    Generator(<<"log_noise_variance">> \o List(ImageCovParameters))

(* line 77, evaluated only when __debug__ holds:
   assert len(parameters) == len(image_cov.parameters()) + 1 *)
AssertOutcome(params, image_cov_gen, enabled) ==
    IF ~enabled THEN "pass"
    ELSE IF ~HasLen(image_cov_gen) THEN "TypeError"
    ELSE IF Len(params) = Len(List(image_cov_gen)) + 1 THEN "pass"
    ELSE "AssertionError"

(* probe columns the model draws from: two of the +-1 vectors of a length *)
ProbeSamples(side_length) ==
    { [k \in 1..side_length |-> IF k = 2 THEN -1 ELSE 1],
      [k \in 1..side_length |-> IF 2 * k > side_length THEN -1 ELSE 1] }

(* generate_probes_bernoulli(side_length, num_probes):
   a (side_length, num_probes) tensor of independent +-1 entries *)
GenerateProbesBernoulli(side_length, n) ==
    { Transpose(cols) : cols \in [1..n -> ProbeSamples(side_length)] }

RECURSIVE CgRun(_, _, _, _, _, _)
CgRun(st, T, lv, lnv, rt, mi) ==
    IF st.converged \/ st.k >= CgMaxNiter(mi) THEN st
    ELSE Then(CgIteration(st, T, lv, lnv, rt), LAMBDA nx : CgRun(nx, T, lv, lnv, rt, mi))

(* lines 20-58: one whole call of linear_cg *)
LinearCg(T, lv, lnv, vm, pre, mi, rt) ==
    IF pre # NoValue
    THEN [exc |-> "NotImplementedError", solve |-> NoTensor, residual_norm |-> NoTensor]
    ELSE Then(ColumnNorms(vm), LAMBDA nrm :
         Then(CgRun(CgStart(ScaleColumns(vm, nrm)), T, lv, lnv, rt, mi), LAMBDA st :
         IF BroadcastOK(Transpose(st.x), nrm)
         THEN [exc |-> NoValue, solve |-> ScaleBack(st.x, nrm), residual_norm |-> st.rz]
         ELSE [exc |-> "RuntimeError", solve |-> NoTensor, residual_norm |-> NoTensor]))

(* trafo.trafo_adjoint_flat(x) for x of shape (obs_numel, batch): the
   adjoint applied to every column, shape (im_numel, batch) *)
TrafoAdjointFlatOK(T, x) == NumRows(x) = NumRows(T)

TrafoAdjointFlat(T, x) ==
    Then2(EagerMat(Transpose(T)), EagerMat(Transpose(x)), LAMBDA Tt, xc :
        EagerMat([r \in 1..Len(Tt) |-> [c \in 1..Len(xc) |->
            RSum([k \in 1..Len(xc[c]) |-> RMul(FromInt(Tt[r][k]), xc[c][k])])]]))

(* lines 95-97 and 100-102: trafo_adjoint_flat, .T.reshape(1, num_probes,
   *im_shape), image_cov.lin_op_transposed; result (num_probes, weights) *)
PullBack(T, x, n) ==
    Then(TrafoAdjointFlat(T, x), LAMBDA im :
    Then(Reshape(Flatten(Transpose(im)), n, ImNumel), LAMBDA batch :
    EagerMat([j \in 1..n |-> Vjp(batch[j])])))

PullBackOK(T, x, n) ==
    /\ TrafoAdjointFlatOK(T, x)
    /\ NumCols(x) * ImNumel = n * ImNumel

(* image_cov.inner_cov(w): the diagonal prior on a batch of rational rows *)
InnerCov(W, lv) ==
    EagerMat([j \in 1..Len(W) |-> [w \in 1..Len(W[j]) |->
        RMul(FromInt(Exp(lv[GroupOf(w)])), W[j][w])]])

(* x.mean() of a vector of rationals *)
Mean(s) == RDiv(RSum(s), FromInt(Len(s)))

(* line 106: torch.sum(image_cov.inner_cov(v_left) * v_right, dim=1).mean() *)
VScalar(lv, left, right) ==
    Then(InnerCov(left, lv), LAMBDA cl :
        Mean(Eager([j \in 1..Len(cl) |-> RDot(cl[j], right[j])])))

(* line 108: the derivative of v_scalar with respect to log_variance[g],
   left and right being constants: the terms of the group, each carrying
   d exp(log_variance[g]) / d log_variance[g] = exp(log_variance[g]) *)
ImageCovGrad(lv, left, right, g) ==
    Mean(Eager([j \in 1..Len(left) |->
        RSum(Eager([w \in 1..Len(left[j]) |->
            IF GroupOf(w) = g
            THEN RMul(FromInt(Exp(lv[g])), RMul(left[j][w], right[j][w]))
            ELSE Zero]))]))

(* line 115: torch.sum(v_obs_left_flat * v_flat, dim=0).mean()
             * log_noise_variance.exp() *)
NoiseScalar(x, vf, lnv) ==
    Then(EagerMat(Transpose(BroadcastOp(RMul, x, ToRat(vf)))), LAMBDA cols :
        RMul(Mean(Eager([j \in 1..Len(cols) |-> RSum(cols[j])])), FromInt(Exp(lnv))))

(* line 117: the derivative of noise_scalar with respect to
   log_noise_variance, x being a constant: c * exp(lnv) differentiates to
   itself *)
NoiseGrad(x, vf, lnv) == NoiseScalar(x, vf, lnv)

(* a solver whose result stays attached to the hyperparameters *)
CgResultGraphAttached(params) == {params[k] : k \in 1..Len(params)}

(* the parameters the autograd graph of linear_cg's result reaches: the
   solve is detached, so none *)
CgResultGraph(params) == {}

(* an ObservationCov with no call in progress *)
GEInit == CGInit

(* lines 60-76: the call and its first assignments *)
(* the 'max_iter' and 'rtol' a caller configures under 'linear_cg',
   dip_mll_optim.py lines 142-147 *)
LinearCgKwargs ==
    {[max_iter |-> 1, rtol |-> Rat(1, 1000)],
     [max_iter |-> 10, rtol |-> Rat(1, 2)],
     [max_iter |-> 10, rtol |-> Rat(1, 1000)]}

(* the solve with the caller's settings forwarded *)
EstimatorSolveForwarding(T, lv, lnv, vm, pre, kwargs) ==
    LinearCg(T, lv, lnv, vm, pre, kwargs.max_iter, kwargs.rtol)

(* line 94: linear_cg(observation_cov, v_flat, preconditioner=preconditioner) *)
EstimatorSolve(T, lv, lnv, vm, pre, kwargs) ==
    LinearCg(T, lv, lnv, vm, pre, DefaultMaxCgIter, DefaultRtol)

GradCall ==
    /\ ge_pc = "idle"
    /\ lr_pc = "idle"
    /\ cg_pc = "idle"
    /\ \E n \in 1..MaxGradProbes, pre \in Preconditioners, dbg \in BOOLEAN :
          /\ ge_num_probes' = n
          /\ ge_preconditioner' = pre
          /\ assertions_enabled' = dbg
    /\ linear_cg_kwargs' \in LinearCgKwargs
    /\ parameters' = List(ObservationCovParameters)
    /\ image_cov_parameters' = List(ImageCovParameters)
    /\ ge_pc' = "asserts"
    /\ UNCHANGED <<objVars, lrVars, cgVars, wlVars, v_flat, v_obs_left_flat, v_left,
                   v_right, grads, requires_grad, ge_exc>>
    /\ UNCHANGED <<exVars, preVars, sbVars>>

(* lines 77-79: the assertions *)
GradAssert ==
    /\ ge_pc = "asserts"
    /\ LET outcome == AssertOutcome(parameters, ImageCovParameters, assertions_enabled)
       IN  IF outcome = "pass"
           THEN ge_pc' = "probes" /\ UNCHANGED ge_exc
           ELSE ge_pc' = "raised" /\ ge_exc' = outcome
    /\ UNCHANGED <<objVars, lrVars, cgVars, wlVars, assertions_enabled, ge_num_probes,
                   ge_preconditioner, linear_cg_kwargs, parameters, image_cov_parameters, v_flat,
                   v_obs_left_flat, v_left, v_right, grads, requires_grad>>
    /\ UNCHANGED <<exVars, preVars, sbVars>>

(* lines 84-90: the probe draw and the empty mapping *)
GradDrawProbes ==
    /\ ge_pc = "probes"
    /\ v_flat' \in GenerateProbesBernoulli(ObsNumel, ge_num_probes)
    /\ grads' = <<>>
    /\ ge_pc' = "solve"
    /\ UNCHANGED <<objVars, lrVars, cgVars, wlVars, assertions_enabled, ge_num_probes,
                   ge_preconditioner, linear_cg_kwargs, parameters, image_cov_parameters,
                   v_obs_left_flat, v_left, v_right, requires_grad, ge_exc>>
    /\ UNCHANGED <<exVars, preVars, sbVars>>

(* line 94: linear_cg(observation_cov, v_flat, preconditioner=preconditioner) *)
GradSolve ==
    /\ ge_pc = "solve"
    /\ LET r == EstimatorSolve(trafo, log_variance, log_noise_variance, v_flat,
                              ge_preconditioner, linear_cg_kwargs)
       IN  IF r.exc = NoValue
           THEN /\ v_obs_left_flat' = r.solve
                /\ requires_grad' =
                      [requires_grad EXCEPT !.v_obs_left_flat = CgResultGraph(parameters)]
                /\ ge_pc' = "pullback"
                /\ UNCHANGED ge_exc
           ELSE /\ ge_exc' = r.exc
                /\ ge_pc' = "raised"
                /\ UNCHANGED <<v_obs_left_flat, requires_grad>>
    /\ UNCHANGED <<objVars, lrVars, cgVars, wlVars, assertions_enabled, ge_num_probes,
                   ge_preconditioner, linear_cg_kwargs, parameters, image_cov_parameters, v_flat,
                   v_left, v_right, grads>>
    /\ UNCHANGED <<exVars, preVars, sbVars>>

(* lines 95-102: both factors are pulled back into weight space *)
GradPullBack ==
    /\ ge_pc = "pullback"
    /\ IF PullBackOK(trafo, v_obs_left_flat, ge_num_probes)
       THEN /\ v_left' = PullBack(trafo, v_obs_left_flat, ge_num_probes)
            /\ v_right' = PullBack(trafo, ToRat(v_flat), ge_num_probes)
            /\ requires_grad' =
                  [requires_grad EXCEPT !.v_left = requires_grad.v_obs_left_flat,
                                        !.v_right = requires_grad.v_flat]
            /\ ge_pc' = "prior"
            /\ UNCHANGED ge_exc
       ELSE /\ ge_exc' = "RuntimeError"
            /\ ge_pc' = "raised"
            /\ UNCHANGED <<v_left, v_right, requires_grad>>
    /\ UNCHANGED <<objVars, lrVars, cgVars, wlVars, assertions_enabled, ge_num_probes,
                   ge_preconditioner, linear_cg_kwargs, parameters, image_cov_parameters, v_flat,
                   v_obs_left_flat, grads>>
    /\ UNCHANGED <<exVars, preVars, sbVars>>

(* lines 106-110: v_scalar and its gradients, one per image_cov parameter *)
GradImageCov ==
    /\ ge_pc = "prior"
    /\ grads' = [p \in {image_cov_parameters[g] : g \in 1..Len(image_cov_parameters)} |->
                    ImageCovGrad(log_variance, v_left, v_right,
                                 CHOOSE g \in 1..Len(image_cov_parameters) :
                                     image_cov_parameters[g] = p)]
    /\ ge_pc' = "noise"
    /\ UNCHANGED <<objVars, lrVars, cgVars, wlVars, assertions_enabled, ge_num_probes,
                   ge_preconditioner, linear_cg_kwargs, parameters, image_cov_parameters, v_flat,
                   v_obs_left_flat, v_left, v_right, requires_grad, ge_exc>>
    /\ UNCHANGED <<exVars, preVars, sbVars>>

(* the noise gradient applied to the hyperparameter in place *)
GradNoiseInPlace ==
    /\ ge_pc = "noise"
    /\ BroadcastOK(v_obs_left_flat, v_flat)
    /\ grads' = [p \in DOMAIN grads \cup {"log_noise_variance"} |->
                    IF p = "log_noise_variance"
                    THEN NoiseGrad(v_obs_left_flat, v_flat, log_noise_variance)
                    ELSE grads[p]]
    /\ log_noise_variance' = (log_noise_variance + 1) % 2
    /\ ge_pc' = "returned"
    /\ UNCHANGED <<trafo, log_variance, low_rank_rank_dim, oversampling_param,
                   vec_batch_size, random_matrix,
                   lrVars, cgVars, wlVars, assertions_enabled, ge_num_probes,
                   ge_preconditioner, linear_cg_kwargs, parameters, image_cov_parameters, v_flat,
                   v_obs_left_flat, v_left, v_right, requires_grad, ge_exc>>
    /\ UNCHANGED <<exVars, preVars, sbVars>>

(* lines 112-119: noise_scalar, its gradient, and the return *)
GradNoise ==
    /\ ge_pc = "noise"
    /\ IF BroadcastOK(v_obs_left_flat, v_flat)
       THEN /\ grads' = [p \in DOMAIN grads \cup {"log_noise_variance"} |->
                           IF p = "log_noise_variance"
                           THEN NoiseGrad(v_obs_left_flat, v_flat, log_noise_variance)
                           ELSE grads[p]]
            /\ ge_pc' = "returned"
            /\ UNCHANGED ge_exc
       ELSE /\ ge_exc' = "RuntimeError"
            /\ ge_pc' = "raised"
            /\ UNCHANGED grads
    /\ UNCHANGED <<objVars, lrVars, cgVars, wlVars, assertions_enabled, ge_num_probes,
                   ge_preconditioner, linear_cg_kwargs, parameters, image_cov_parameters, v_flat,
                   v_obs_left_flat, v_left, v_right, requires_grad>>
    /\ UNCHANGED <<exVars, preVars, sbVars>>

(* the caller has the mapping or the exception; the frame is gone *)
GradDone ==
    /\ ge_pc \in {"returned", "raised"}
    /\ ge_pc' = "idle"
    /\ assertions_enabled' = FALSE
    /\ ge_num_probes' = 0
    /\ ge_preconditioner' = NoValue
    /\ linear_cg_kwargs' = NoLinearCgKwargs
    /\ parameters' = <<>> /\ image_cov_parameters' = <<>>
    /\ v_flat' = NoTensor /\ v_obs_left_flat' = NoTensor
    /\ v_left' = NoTensor /\ v_right' = NoTensor
    /\ grads' = <<>>
    /\ requires_grad' = NoGraph
    /\ ge_exc' = NoValue
    /\ UNCHANGED <<objVars, lrVars, cgVars, wlVars>>
    /\ UNCHANGED <<exVars, preVars, sbVars>>

GENext ==
    \/ GradCall
    \/ GradAssert
    \/ GradDrawProbes
    \/ GradSolve
    \/ GradPullBack
    \/ GradImageCov
    \/ GradNoise
    \/ GradDone
    \/ SetLogVariance
    \/ SetLogNoiseVariance

GESpec == GEInit /\ [][GENext]_vars

----------------------------------------------------------------------------
(* Properties of approx_observation_cov_log_det_grads *)

GradCallEnded == ge_pc \in {"returned", "raised"}

(* the solution of observation_cov x = vm, one column per probe: the
   solver's iterate for the normalized columns, column j scaled back by the
   norm of column j *)
CgSolution(T, lv, lnv, vm) ==
    Then(ColumnNorms(vm), LAMBDA nrm :
    Then(CgRun(CgStart(ScaleColumns(vm, nrm)), T, lv, lnv, DefaultRtol, DefaultMaxCgIter),
         LAMBDA st : BroadcastOp(RMul, st.x, nrm)))

(* the rows of W with the weights outside group g set to zero *)
RestrictToGroup(W, g) ==
    EagerMat([j \in 1..Len(W) |-> [w \in 1..Len(W[j]) |->
        IF GroupOf(w) = g THEN W[j][w] ELSE Zero]])

(* C13: every call draws a probe batch of shape (M, num_probes) with entries
   +1 or -1 and uses that batch both as the right-hand side of the solve and
   for the right factor; no batch outlives its call *)
C13_EveryCallDrawsProbes ==
    /\ GradCallEnded =>
          /\ NumRows(v_flat) = ObsNumel
          /\ NumCols(v_flat) = ge_num_probes
          /\ \A m \in 1..NumRows(v_flat) : \A j \in 1..NumCols(v_flat) :
                v_flat[m][j] \in {-1, 1}
          /\ v_right = PullBack(trafo, ToRat(v_flat), ge_num_probes)
    /\ ge_pc = "idle" => v_flat = NoTensor

(* C14: the call returns a mapping whose keys are exactly the
   hyperparameters of the observation covariance: every parameter of
   image_cov and log_noise_variance *)
C14_OneGradientPerHyperparameter ==
    GradCallEnded =>
        /\ ge_pc = "returned"
        /\ DOMAIN grads = {parameters[k] : k \in 1..Len(parameters)}
        /\ DOMAIN grads = {image_cov_parameters[k] : k \in 1..Len(image_cov_parameters)}
                              \cup {"log_noise_variance"}

(* C15: the returned gradient of log_noise_variance is the mean over the
   probes v of sum(x * v) times exp(log_noise_variance), x being the CG
   solution for v *)
C15_NoiseGradient ==
    ge_pc = "returned" =>
        grads["log_noise_variance"]
            = LET x == CgSolution(trafo, log_variance, log_noise_variance, v_flat)
              IN  RMul(Mean([j \in 1..ge_num_probes |->
                            RSum([m \in 1..ObsNumel |->
                                RMul(x[m][j], FromInt(v_flat[m][j]))])]),
                       FromInt(Exp(log_noise_variance)))

(* C16: the returned gradient of the log-variance of group g is the group's
   variance times the mean over probes of the dot product, over the group's
   weights, of left = vjp(adjoint(x)) and right = vjp(adjoint(v)) *)
C16_PriorGradient ==
    ge_pc = "returned" =>
        LET x == CgSolution(trafo, log_variance, log_noise_variance, v_flat)
            left == PullBack(trafo, x, ge_num_probes)
            right == PullBack(trafo, ToRat(v_flat), ge_num_probes)
        IN  \A g \in 1..NumGroups :
                grads[PriorParam(g)]
                    = RMul(FromInt(Exp(log_variance[g])),
                           Mean([j \in 1..ge_num_probes |->
                               RDot(RestrictToGroup(left, g)[j], right[j])]))

(* C17: when the gradients are taken the solve, the probes and the two
   pulled-back factors carry no graph to any hyperparameter, the gradient of
   a prior parameter is the derivative through inner_cov alone, and a call
   changes no hyperparameter value *)
C17_FactorsConstantParametersUntouched ==
    /\ [](ge_pc \in {"noise", "returned"} =>
            /\ requires_grad.v_flat = {}
            /\ requires_grad.v_obs_left_flat = {}
            /\ requires_grad.v_left = {}
            /\ requires_grad.v_right = {}
            /\ \A g \in 1..NumGroups :
                  grads[PriorParam(g)]
                      = VScalar(log_variance, v_left, RestrictToGroup(v_right, g)))
    /\ [][ge_pc # "idle" =>
            /\ log_variance' = log_variance
            /\ log_noise_variance' = log_noise_variance]_vars

(* a call returned gradients, a nonzero one for a prior parameter, on an
   operator with two different prior variances *)
C17_Witness ==
    /\ ge_pc = "returned"
    /\ log_variance[1] # log_variance[2]
    /\ \E g \in 1..NumGroups : grads[PriorParam(g)].n # 0
    /\ grads["log_noise_variance"].n # 0
    /\ requires_grad.v_left = {}

----------------------------------------------------------------------------
(* weights_linearization: the network weights of the linearized model are
   fitted with Adam to the TV-regularized data term.  Images, observations
   and weight vectors are vectors of exact rationals; the network is affine
   in its weights, output = jac . weights + bias before its final sigmoid. *)

(* Bound of the model: the largest optim_kwargs['iterations'] *)
MaxIterations == 2

RVecAdd(a, b) == Eager([k \in 1..Len(a) |-> RAdd(a[k], b[k])])
RVecSub(a, b) == Eager([k \in 1..Len(a) |-> RSub(a[k], b[k])])
RVecMul(a, b) == Eager([k \in 1..Len(a) |-> RMul(a[k], b[k])])
RScale(c, a) == Eager([k \in 1..Len(a) |-> RMul(c, a[k])])
RMatVec(A, x) == Eager([r \in 1..Len(A) |-> RDot(A[r], x)])
RZeroVec(n) == [k \in 1..n |-> Zero]
ToRatVec(x) == [k \in 1..Len(x) |-> FromInt(x[k])]

One == FromInt(1)

RMin(a, b) == IF RLess(b, a) THEN b ELSE a
RMax(a, b) == IF RLess(a, b) THEN b ELSE a

(* the final activation.  The logistic function has no rational values; the
   model uses the hard sigmoid clamp(1/2 + x/4, 0, 1), which has the
   logistic function's value and slope at 0 and its limits 0 and 1 *)
Sigmoid(x) == RMax(Zero, RMin(One, RAdd(Rat(1, 2), RMul(Rat(1, 4), x))))

SigmoidVec(x) == Eager([k \in 1..Len(x) |-> Sigmoid(x[k])])

(* slope of the activation at x *)
SigmoidSlope(x) ==
    IF RLess(FromInt(-2), x) /\ RLess(x, FromInt(2)) THEN Rat(1, 4) ELSE Zero

(* the network's output before its final activation *)
PreSigmoid(net, weights) == RVecAdd(RMatVec(net.jac, weights), net.bias)

(* nn_model_no_sigmoid(nn_input), lines 100-101 *)
ReconNoActivation(net, weights) == PreSigmoid(net, weights)

(* Jacobian with respect to the weights, at weights, of the network with or
   without its final sigmoid *)
Jacobian(net, weights, with_sigmoid) ==
    IF with_sigmoid
    THEN LET z == PreSigmoid(net, weights)
         IN  EagerMat([r \in 1..Len(net.jac) |->
                 [c \in 1..Len(net.jac[r]) |-> RMul(SigmoidSlope(z[r]), net.jac[r][c])]])
    ELSE net.jac

(* NeuralBasisExpansion(nn_model=...): jvp and vjp with the Jacobian of the
   model it is built on *)
NeuralBasisExpansion(net, weights, with_sigmoid) ==
    [with_sigmoid |-> with_sigmoid, gprior |-> FALSE,
     jac |-> Jacobian(net, weights, with_sigmoid)]

(* GpriorNeuralBasisExpansion: the columns of the Jacobian divided by the
   scale vector *)
GpriorNeuralBasisExpansion(nbe, scale) ==
    [with_sigmoid |-> nbe.with_sigmoid, gprior |-> TRUE,
     jac |-> EagerMat([r \in 1..Len(nbe.jac) |->
                 [c \in 1..Len(nbe.jac[r]) |-> RDiv(nbe.jac[r][c], FromInt(scale[c]))]])]

(* neural_basis_expansion.jvp and .vjp *)
NbeJvp(nbe, w) == RMatVec(nbe.jac, w)
NbeVjp(nbe, x) == RMatVec(Transpose(nbe.jac), x)

(* trafo and trafo.trafo_adjoint for an integer matrix *)
WlTrafoApply(T, x) == RMatVec(ToRat(T), x)
WlTrafoAdjoint(T, y) == RMatVec(ToRat(Transpose(T)), y)

RSign(x) == IF x.n > 0 THEN One ELSE IF x.n < 0 THEN FromInt(-1) ELSE Zero

(* batch_tv_grad: the gradient of sum |x[k+1] - x[k]| along the image row *)
BatchTvGrad(x) ==
    Eager([k \in 1..Len(x) |->
        RSub(IF k > 1 THEN RSign(RSub(x[k], x[k - 1])) ELSE Zero,
             IF k < Len(x) THEN RSign(RSub(x[k + 1], x[k])) ELSE Zero)])

(* torch.optim.Adam with its default betas (0.9, 0.999).  The optimizer is
   represented by the gradients it has seen; its bias-corrected moments are
   weighted means of them.  The step direction m_hat / (sqrt(v_hat) + eps)
   depends only on the ratios of the gradients of a coordinate; the model
   keeps these ratios to AdamMantissa steps, takes the second-moment weights
   (0.999 ^ age) as equal, and rounds the direction toward zero to a multiple
   of 1 / AdamGrid; eps = 1e-8 lies below that grid *)
AdamMantissa == 16
AdamGrid == 2

RECURSIVE Pow(_, _)
Pow(b, e) == IF e = 0 THEN 1 ELSE b * Pow(b, e - 1)

(* the largest s with s * s <= n *)
ISqrtFloor(n) == CHOOSE s \in 0..n : s * s <= n /\ n < (s + 1) * (s + 1)

(* the direction of one coordinate after the gradients h[1], ..., h[t] *)
AdamDirection(h) ==
    LET t == Len(h)
        D == CommonDen(h)
        k == [j \in 1..t |-> h[j].n * (D \div h[j].d)]
        kmax == CHOOSE m \in {Abs(k[j]) : j \in 1..t} : \A j \in 1..t : Abs(k[j]) <= m
    IN  IF kmax = 0 THEN Zero
        ELSE LET q == [j \in 1..t |-> Sign(k[j]) * ((Abs(k[j]) * AdamMantissa) \div kmax)]
                 a == [j \in 1..t |-> Pow(9, t - j) * Pow(10, j - 1)]
                 A == SumSeq(a)
                 num == Dot(a, q)
                 mag == ISqrtFloor((AdamGrid * AdamGrid * t * num * num)
                                       \div (A * A * Dot(q, q)))
             IN  Rat(Sign(num) * mag, AdamGrid)

(* line 106 *)
Adam(lr) == [lr |-> lr, history |-> <<>>]

(* optimizer.step(), line 146: the new weights and optimizer *)
AdamStep(opt, w, grad) ==
    LET h == Append(opt.history, grad)
        dir == [c \in 1..Len(w) |-> AdamDirection([j \in 1..Len(h) |-> h[j][c]])]
    IN  [weights |-> Eager([c \in 1..Len(w) |-> RSub(w[c], RMul(opt.lr, dir[c]))]),
         optimizer |-> [lr |-> opt.lr, history |-> h]]

(* a tensor that shares the storage of map_weights *)
NoClone(t) == [data |-> t, storage |-> "map_weights"]

(* map_weights.clone(), line 105 *)
Clone(t) == [data |-> t, storage |-> "own"]

(* nn.Parameter(torch.zeros_like(map_weights)), line 104 *)
ZerosLike(t) == [data |-> RZeroVec(Len(t)), storage |-> "own"]

(* lines 103-105 *)
InitialWeights(simplified_eqn, mw) ==
    IF simplified_eqn THEN ZerosLike(mw) ELSE Clone(mw)

(* lines 115-118 *)
FdVector(simplified_eqn, w, mw) == IF simplified_eqn THEN w ELSE RVecSub(w, mw)

(* lines 115-126: the reconstruction of the linearized model at weights w *)
LinRecon(nbe, simplified_eqn, use_sigmoid, w, mw, base) ==
    LET jv == NbeJvp(nbe, FdVector(simplified_eqn, w, mw))
        pre == IF simplified_eqn THEN jv ELSE RVecAdd(jv, base)
    IN  IF use_sigmoid THEN SigmoidVec(pre) ELSE pre

(* lines 128-137: the gradient of the loss with respect to lin_recon *)
LossGrad(T, obs, recon, precision, gamma) ==
    LET proj_lin_recon == WlTrafoApply(T, recon)
        norm_grad == WlTrafoAdjoint(T, RVecSub(obs, proj_lin_recon))
        tv_grad == BatchTvGrad(recon)
    IN  RVecAdd(RScale(RMul(RDiv(FromInt(-2), FromInt(Len(obs))), precision), norm_grad),
                RScale(gamma, tv_grad))

(* the factor left out *)
FoldSigmoidNever(use_sigmoid, vec, recon) == vec

(* lines 139-140: v * lin_recon * (1 - lin_recon) under use_sigmoid *)
FoldSigmoid(use_sigmoid, vec, recon) ==
    IF use_sigmoid
    THEN RVecMul(RVecMul(vec, recon), [k \in 1..Len(recon) |-> RSub(One, recon[k])])
    ELSE vec

(* line 145 *)
WeightGrad(gv, wd, w) == RVecAdd(gv, RScale(wd, w))

(* lines 82-98: the expansion used in the loop *)
LoopExpansion(net, mw, kwargs, given) ==
    IF net.use_sigmoid
    THEN IF kwargs.use_gprior
         THEN GpriorNeuralBasisExpansion(NeuralBasisExpansion(net, mw, FALSE),
                                         kwargs.gprior_scale_kwargs)
         ELSE NeuralBasisExpansion(net, mw, FALSE)
    ELSE given

(* the inputs of the modelled calls: two pixels, two weights, two
   observations *)
WlImNumel == 2

WlTrafos == {<<<<1, 0>>, <<0, 1>>>>, <<<<1, 1>>, <<0, 1>>>>}

WlNetworks ==
    {[use_sigmoid |-> s, jac |-> ToRat(J), bias |-> ToRatVec(b)] :
        s \in BOOLEAN,
        J \in {<<<<1, 0>>, <<0, 1>>>>, <<<<1, 0>>, <<1, 1>>>>},
        b \in {<<0, 0>>, <<1, 0>>}}

WlMapWeights == {ToRatVec(<<0, 0>>), ToRatVec(<<1, -1>>)}

WlObservations == {ToRatVec(<<0, 0>>), ToRatVec(<<1, 0>>)}

(* a dict without the keys in omitted *)
Without(dict, omitted) == [k \in DOMAIN dict \ omitted |-> dict[k]]

(* the keys whose presence the docstring makes conditional (lines 60-69), and
   'noise_precision', which the experiment's call site leaves out *)
OmittableKeys == {"use_gprior", "gprior_scale_kwargs", "noise_precision"}

FullOptimKwargs ==
    {[iterations |-> n, lr |-> One, simplified_eqn |-> s,
      noise_precision |-> One, gamma |-> FromInt(g), wd |-> FromInt(w),
      use_gprior |-> p, gprior_scale_kwargs |-> <<2, 1>>] :
        n \in 0..MaxIterations, s \in BOOLEAN, g \in {0, 1}, w \in {0, 1},
        p \in BOOLEAN}

WlOptimKwargs ==
    {Without(d, o) : d \in FullOptimKwargs, o \in SUBSET OmittableKeys}

(* dict[key] raises KeyError for a key the dict does not hold *)
HasKey(dict, key) == key \in DOMAIN dict

(* every key read whatever the network *)
KeysReadUnconditionally(net, kwargs) ==
    <<"use_gprior", "gprior_scale_kwargs", "simplified_eqn", "lr",
      "noise_precision", "iterations">>

(* the keys of optim_kwargs read before the loop, in the order of the reads:
   lines 90, 94, 104, 106, 108, 110 *)
KeysReadBeforeLoop(net, kwargs) ==
    (IF net.use_sigmoid
     THEN <<"use_gprior">>
              \o (IF HasKey(kwargs, "use_gprior") /\ kwargs.use_gprior
                  THEN <<"gprior_scale_kwargs">> ELSE <<>>)
     ELSE <<>>)
    \o <<"simplified_eqn", "lr", "noise_precision", "iterations">>

(* the first read that fails, or NoValue *)
FirstMissingKey(reads, kwargs) ==
    IF \A j \in 1..Len(reads) : HasKey(kwargs, reads[j]) THEN NoValue
    ELSE reads[CHOOSE j \in 1..Len(reads) :
                   /\ ~HasKey(kwargs, reads[j])
                   /\ \A h \in 1..(j - 1) : HasKey(kwargs, reads[h])]

(* the line of the read of key before the loop *)
LineOfRead(key) ==
    CASE key = "use_gprior" -> 90
      [] key = "gprior_scale_kwargs" -> 94
      [] key = "simplified_eqn" -> 104
      [] key = "lr" -> 106
      [] key = "noise_precision" -> 108
      [] OTHER -> 110

WLInit ==
    /\ trafo = NoValue
    /\ log_variance = <<>>
    /\ log_noise_variance = 0
    /\ low_rank_rank_dim = NoValue
    /\ oversampling_param = NoValue
    /\ vec_batch_size = NoValue
    /\ random_matrix = NoValue
    /\ lr_pc = "idle"
    /\ eps = NoValue
    /\ i = 0
    /\ v_cov_obs_mat = <<>>
    /\ Q = NoValue /\ B = NoValue /\ L = NoValue /\ V = NoValue
    /\ ret = NoValue
    /\ CgIdle
    /\ GeIdle
    /\ WlIdle
    /\ ExIdle
    /\ PreIdle
    /\ SbIdle

(* the parameters weights_linearization declares, lines 15-22; none has a
   default and there is no **kwargs *)
DeclaredParameters ==
    {"trafo", "neural_basis_expansion", "map_weights", "observation",
     "ground_truth", "optim_kwargs"}

(* a call with these keyword arguments binds *)
Binds(keywords) == keywords = DeclaredParameters

(* the keywords of the call in sample_based_marginal_likelihood_optim,
   sample_based_mll_optim.py lines 85-92 *)
SampleBasedKeywords ==
    {"trafo", "neural_basis_expansion", "use_sigmoid", "map_weights",
     "observation", "ground_truth", "optim_kwargs"}

(* optim_kwargs['sgd_kwargs'], sample_based_mll_optim.py lines 74-82 *)
SampleBasedOptimKwargs(lv) ==
    [simplified_eqn |-> TRUE, iterations |-> 10000, lr |-> Rat(5, 10000),
     noise_precision |-> One, gamma |-> Zero,
     wd |-> RDiv(FromInt(2), FromInt(Exp(lv)))]

(* the keywords of the call in coordinator, dip_mll_optim.py lines 119-126 *)
ExperimentKeywords ==
    {"trafo", "neural_basis_expansion", "map_weights", "observation",
     "ground_truth", "optim_kwargs"}

(* linearize_weights_optim_kwargs for a network, dip_mll_optim.py lines
   101-108, over the configurations of cfg *)
ExperimentOptimKwargs(net) ==
    {[iterations |-> n, lr |-> One, wd |-> FromInt(w), gamma |-> FromInt(g),
      simplified_eqn |-> s, use_sigmoid |-> net.use_sigmoid] :
        n \in 0..MaxIterations, w \in {0, 1}, g \in {0, 1}, s \in BOOLEAN}

(* what nn_model.use_sigmoid gives at line 82 for the network of the
   expansion the coordinator passes (dip_mll_optim.py lines 109-117): the
   network itself without sigmoid, else the UNetReturnPreSigmoid wrapper,
   which may report the wrapped network's flag, report none, or lack the
   attribute *)
ExperimentUseSigmoid(net) ==
    IF net.use_sigmoid THEN {"True", "False", "AttributeError"} ELSE {"False"}

(* TypeError of a call that does not bind: the body is not entered *)
WlNotBound ==
    /\ wl_pc' = "raised"
    /\ wl_exc' = "TypeError"
    /\ wl_line' = 15
    /\ nn_model' = NoNetwork
    /\ wl_trafo' = <<>>
    /\ neural_basis_expansion' = NoExpansion
    /\ map_weights' = NoStorage
    /\ observation' = <<>>
    /\ optim_kwargs' = NoOptimKwargs
    /\ recon_no_activation' = <<>>
    /\ lin_weights_fd' = NoStorage
    /\ optimizer' = NoOptimizer
    /\ wl_iter' = 0
    /\ lin_recon' = <<>>
    /\ grads_vec' = <<>>
    /\ wl_ret' = NoWlResult

(* lines 79-108 for bound arguments.  given is the expansion passed in, net
   its nn_model. *)
WlEnter(T, net, given, mw, obs, kwargs) ==
    /\ wl_trafo' = T
    /\ nn_model' = net
    /\ map_weights' = [data |-> mw, storage |-> "map_weights"]
    /\ observation' = obs
    /\ optim_kwargs' = kwargs
    /\ LET missing == FirstMissingKey(KeysReadBeforeLoop(net, kwargs), kwargs)
       IN  IF missing = NoValue
           THEN /\ neural_basis_expansion' = LoopExpansion(net, mw, kwargs, given)
                /\ recon_no_activation' = ReconNoActivation(net, mw)
                /\ lin_weights_fd' = InitialWeights(kwargs.simplified_eqn, mw)
                /\ optimizer' = Adam(kwargs.lr)
                /\ wl_exc' = NoValue
                /\ wl_line' = 113
                /\ wl_pc' = "loop"
           ELSE /\ neural_basis_expansion' =
                       IF net.use_sigmoid
                       THEN NeuralBasisExpansion(net, mw, FALSE) ELSE given
                /\ recon_no_activation' =
                       IF LineOfRead(missing) > 101
                       THEN ReconNoActivation(net, mw) ELSE NoTensor
                /\ lin_weights_fd' =
                       IF LineOfRead(missing) > 105
                       THEN InitialWeights(kwargs.simplified_eqn, mw) ELSE NoStorage
                /\ optimizer' =
                       IF LineOfRead(missing) > 106 THEN Adam(kwargs.lr) ELSE NoOptimizer
                /\ wl_exc' = "KeyError"
                /\ wl_line' = LineOfRead(missing)
                /\ wl_pc' = "raised"
    /\ wl_iter' = 0
    /\ lin_recon' = NoTensor
    /\ grads_vec' = NoTensor
    /\ wl_ret' = NoWlResult

(* weights_linearization(trafo, neural_basis_expansion, map_weights,
   observation, ground_truth, optim_kwargs) called as declared.  The
   expansion passed in is the one of the network at the MAP weights; for a
   network without sigmoid the caller passes the expansion it wants, here the
   plain one. *)
WlCall ==
    /\ wl_pc = "idle"
    /\ \E T \in WlTrafos, net \in WlNetworks, mw \in WlMapWeights,
          obs \in WlObservations, kwargs \in WlOptimKwargs :
        WlEnter(T, net, NeuralBasisExpansion(net, mw, net.use_sigmoid), mw, obs, kwargs)
    /\ wl_site' = "direct"
    /\ UNCHANGED <<objVars, lrVars, cgVars, geVars>>
    /\ UNCHANGED <<exVars, preVars, sbVars>>

(* the call of sample_based_marginal_likelihood_optim,
   sample_based_mll_optim.py lines 74-92, with the g-prior expansion of the
   image covariance *)
WlCallSampleBased ==
    /\ wl_pc = "idle"
    /\ IF Binds(SampleBasedKeywords)
       THEN \E T \in WlTrafos, net \in WlNetworks, mw \in WlMapWeights,
               obs \in WlObservations, lv \in LogVals :
                WlEnter(T, net,
                        GpriorNeuralBasisExpansion(
                            NeuralBasisExpansion(net, mw, net.use_sigmoid), <<2, 1>>),
                        mw, obs, SampleBasedOptimKwargs(lv))
       ELSE WlNotBound
    /\ wl_site' = "sample_based"
    /\ UNCHANGED <<objVars, lrVars, cgVars, geVars>>
    /\ UNCHANGED <<exVars, preVars, sbVars>>

(* the call of coordinator, dip_mll_optim.py lines 100-126 *)
WlCallExperiment ==
    /\ wl_pc = "idle"
    /\ IF Binds(ExperimentKeywords)
       THEN \E T \in WlTrafos, net \in WlNetworks, mw \in WlMapWeights,
               obs \in WlObservations :
              \E kwargs \in ExperimentOptimKwargs(net), flag \in ExperimentUseSigmoid(net) :
                LET passed == [net EXCEPT !.use_sigmoid = (flag = "True")]
                    given == NeuralBasisExpansion(net, mw, FALSE)
                IN  IF flag = "AttributeError"
                    THEN /\ wl_pc' = "raised"
                         /\ wl_exc' = "AttributeError"
                         /\ wl_line' = 82
                         /\ wl_trafo' = T
                         /\ nn_model' = passed
                         /\ map_weights' = [data |-> mw, storage |-> "map_weights"]
                         /\ observation' = obs
                         /\ optim_kwargs' = kwargs
                         /\ neural_basis_expansion' = given
                         /\ recon_no_activation' = NoTensor
                         /\ lin_weights_fd' = NoStorage
                         /\ optimizer' = NoOptimizer
                         /\ wl_iter' = 0
                         /\ lin_recon' = NoTensor
                         /\ grads_vec' = NoTensor
                         /\ wl_ret' = NoWlResult
                    ELSE WlEnter(T, passed, given, mw, obs, kwargs)
       ELSE WlNotBound
    /\ wl_site' = "experiment"
    /\ UNCHANGED <<objVars, lrVars, cgVars, geVars>>
    /\ UNCHANGED <<exVars, preVars, sbVars>>

(* one pass of the loop body, lines 113-150 *)
WlIterate ==
    /\ wl_pc = "loop"
    /\ wl_iter < optim_kwargs.iterations
    /\ LET recon == LinRecon(neural_basis_expansion, optim_kwargs.simplified_eqn,
                             nn_model.use_sigmoid, lin_weights_fd.data,
                             map_weights.data, recon_no_activation)
           vec == FoldSigmoid(nn_model.use_sigmoid,
                              LossGrad(wl_trafo, observation, recon,
                                       optim_kwargs.noise_precision, optim_kwargs.gamma),
                              recon)
           gv == NbeVjp(neural_basis_expansion, vec)
           step == AdamStep(optimizer, lin_weights_fd.data,
                            WeightGrad(gv, optim_kwargs.wd, lin_weights_fd.data))
       IN  /\ lin_recon' = recon
           /\ grads_vec' = gv
           /\ lin_weights_fd' = [lin_weights_fd EXCEPT !.data = step.weights]
           /\ optimizer' = step.optimizer
           /\ map_weights' = IF lin_weights_fd.storage = map_weights.storage
                             THEN [map_weights EXCEPT !.data = step.weights]
                             ELSE map_weights
    /\ wl_iter' = wl_iter + 1
    /\ UNCHANGED <<objVars, lrVars, cgVars, geVars, wl_pc, nn_model, wl_trafo,
                   neural_basis_expansion, observation, optim_kwargs,
                   recon_no_activation, wl_ret, wl_exc, wl_line, wl_site>>
    /\ UNCHANGED <<exVars, preVars, sbVars>>

(* line 152, reached when range(iterations) is exhausted; lin_recon is bound
   by the loop body only *)
WlReturn ==
    /\ wl_pc = "loop"
    /\ wl_iter = optim_kwargs.iterations
    /\ IF lin_recon = NoTensor
       THEN /\ wl_exc' = "UnboundLocalError"
            /\ wl_pc' = "raised"
            /\ UNCHANGED wl_ret
       ELSE /\ wl_ret' = [lin_weights |-> lin_weights_fd.data, lin_recon |-> lin_recon]
            /\ wl_pc' = "returned"
            /\ UNCHANGED wl_exc
    /\ wl_line' = 152
    /\ UNCHANGED <<objVars, lrVars, cgVars, geVars, nn_model, wl_trafo,
                   neural_basis_expansion, map_weights, observation, optim_kwargs,
                   recon_no_activation, lin_weights_fd, optimizer, wl_iter,
                   lin_recon, grads_vec, wl_site>>
    /\ UNCHANGED <<exVars, preVars, sbVars>>

(* the caller takes the result or the exception; the frame is dropped *)
WlDone ==
    /\ wl_pc \in {"returned", "raised"}
    /\ wl_pc' = "idle"
    /\ nn_model' = NoNetwork
    /\ wl_trafo' = <<>>
    /\ neural_basis_expansion' = NoExpansion
    /\ map_weights' = NoStorage
    /\ observation' = <<>>
    /\ optim_kwargs' = NoOptimKwargs
    /\ recon_no_activation' = <<>>
    /\ lin_weights_fd' = NoStorage
    /\ optimizer' = NoOptimizer
    /\ wl_iter' = 0
    /\ lin_recon' = <<>>
    /\ grads_vec' = <<>>
    /\ wl_ret' = NoWlResult
    /\ wl_exc' = NoValue
    /\ wl_line' = 0
    /\ wl_site' = NoValue
    /\ UNCHANGED <<objVars, lrVars, cgVars, geVars>>
    /\ UNCHANGED <<exVars, preVars, sbVars>>

WLNext ==
    \/ WlCall
    \/ WlCallSampleBased
    \/ WlCallExperiment
    \/ WlIterate
    \/ WlReturn
    \/ WlDone

WLSpec == WLInit /\ [][WLNext]_vars

----------------------------------------------------------------------------
(* the linearized model of the running call evaluated at weights w *)
ModelAt(w) ==
    LinRecon(neural_basis_expansion, optim_kwargs.simplified_eqn,
             nn_model.use_sigmoid, w, map_weights.data, recon_no_activation)

(* C18: for iterations >= 1 the reconstruction weights_linearization returns
   is the linearized model evaluated at the weights it returns, the weights
   after the last optimizer step *)
C18_ReturnedReconMatchesWeights ==
    (wl_pc = "returned" /\ optim_kwargs.iterations >= 1)
        => wl_ret.lin_recon = ModelAt(wl_ret.lin_weights)

(* C19: 'simplified_eqn' alone selects the parameterization.  When true the
   optimization variable starts at zero and every pass evaluates
   J @ lin_weights; when false it starts at a copy of map_weights and every
   pass evaluates J @ (lin_weights - map_weights) + the pre-sigmoid MAP
   reconstruction (each followed by the sigmoid iff the network has one); in
   both cases map_weights is never modified while the call runs *)
C19_SimplifiedEqnSelectsModel ==
    /\ []((wl_pc = "loop" /\ wl_iter = 0) =>
            lin_weights_fd.data = IF optim_kwargs.simplified_eqn
                                  THEN ToRatVec(<<0, 0>>)
                                  ELSE map_weights.data)
    /\ [][(wl_pc = "loop" /\ wl_iter' = wl_iter + 1) =>
            LET J == neural_basis_expansion.jac
                w == lin_weights_fd.data
                pre == IF optim_kwargs.simplified_eqn
                       THEN RMatVec(J, w)
                       ELSE RVecAdd(RMatVec(J, RVecSub(w, map_weights.data)),
                                    PreSigmoid(nn_model, map_weights.data))
            IN  lin_recon' = IF nn_model.use_sigmoid THEN SigmoidVec(pre) ELSE pre]_vars
    /\ [][(wl_pc = "loop") => map_weights' = map_weights]_vars

(* a standard-model call returned with weights that moved away from nonzero
   MAP weights *)
C19_Witness ==
    /\ wl_pc = "returned"
    /\ ~optim_kwargs.simplified_eqn
    /\ map_weights.data # ToRatVec(<<0, 0>>)
    /\ wl_ret.lin_weights # map_weights.data

(* the Jacobian, without sigmoid, the loop of the running call must use *)
PreSigmoidJacobian ==
    IF neural_basis_expansion.gprior
    THEN [r \in 1..WlImNumel |-> [c \in 1..Len(nn_model.jac[r]) |->
             RDiv(nn_model.jac[r][c], FromInt(optim_kwargs.gprior_scale_kwargs[c]))]]
    ELSE nn_model.jac

(* C20: the sigmoid is applied to the linearized reconstruction iff the
   network's output layer uses one; in that case the Jacobian is that of the
   pre-sigmoid network and the gradient of the loss is multiplied by
   lin_recon * (1 - lin_recon) before the VJP; without sigmoid no factor is
   applied *)
C20_SigmoidFoldedBeforeVjp ==
    /\ [](wl_pc \in {"loop", "returned"} =>
            /\ ~neural_basis_expansion.with_sigmoid
            /\ neural_basis_expansion.gprior
                   = (nn_model.use_sigmoid /\ optim_kwargs.use_gprior)
            /\ neural_basis_expansion.jac = PreSigmoidJacobian)
    /\ [][(wl_pc = "loop" /\ wl_iter' = wl_iter + 1) =>
            LET pre == RVecAdd(RMatVec(PreSigmoidJacobian,
                                       FdVector(optim_kwargs.simplified_eqn,
                                                lin_weights_fd.data, map_weights.data)),
                               IF optim_kwargs.simplified_eqn
                               THEN ToRatVec(<<0, 0>>) ELSE recon_no_activation)
                r == lin_recon'
                g == LossGrad(wl_trafo, observation, r,
                              optim_kwargs.noise_precision, optim_kwargs.gamma)
                folded == [k \in 1..WlImNumel |->
                              IF nn_model.use_sigmoid
                              THEN RMul(g[k], RMul(r[k], RSub(One, r[k])))
                              ELSE g[k]]
            IN  /\ r = IF nn_model.use_sigmoid
                       THEN [k \in 1..WlImNumel |-> Sigmoid(pre[k])] ELSE pre
                /\ grads_vec' = RMatVec(Transpose(PreSigmoidJacobian), folded)]_vars

(* a pass of a sigmoid network ended with an unsaturated reconstruction and a
   nonzero pulled-back gradient *)
C20_Witness ==
    /\ wl_pc = "loop" /\ wl_iter >= 1
    /\ nn_model.use_sigmoid
    /\ \A k \in 1..WlImNumel : RLess(Zero, lin_recon[k]) /\ RLess(lin_recon[k], One)
    /\ grads_vec # ToRatVec(<<0, 0>>)

(* the running call is the exactly solvable scenario: simplified model, J = I
   (a network without sigmoid whose output is its weights), identity ray
   transform, no TV term and no weight decay; the observation is the target *)
ToyScenario ==
    /\ wl_pc # "idle"
    /\ optim_kwargs.simplified_eqn
    /\ ~nn_model.use_sigmoid
    /\ neural_basis_expansion.jac = ToRat(Identity(WlImNumel))
    /\ wl_trafo = Identity(WlImNumel)
    /\ optim_kwargs.gamma = Zero
    /\ optim_kwargs.wd = Zero

(* C21: in the exactly solvable scenario the call converges: the
   reconstruction it returns is the target, and once a pass finds a zero
   residual (its reconstruction equals the observation) the weights no longer
   move *)
C21_ToyConverges ==
    /\ []((ToyScenario /\ wl_pc = "returned") => wl_ret.lin_recon = observation)
    /\ [][(ToyScenario /\ wl_iter' = wl_iter + 1 /\ lin_recon' = observation)
              => lin_weights_fd'.data = lin_weights_fd.data]_vars

(* C22: optim_kwargs['use_gprior'] is read only for a network with sigmoid
   and optim_kwargs['gprior_scale_kwargs'] only when in addition use_gprior
   is true: a call for a network without sigmoid never fails on these keys,
   a call with use_gprior false never fails on 'gprior_scale_kwargs', and for
   a sigmoid network a missing 'use_gprior' raises KeyError at its read
   (line 90), before the optimization variable and the optimizer exist *)
C22_GpriorKeysReadConditionally ==
    /\ (wl_exc = "KeyError" /\ wl_line = 90) => nn_model.use_sigmoid
    /\ (wl_exc = "KeyError" /\ wl_line = 94) =>
           nn_model.use_sigmoid /\ optim_kwargs.use_gprior
    /\ (wl_pc # "idle" /\ ~nn_model.use_sigmoid
            /\ HasKey(optim_kwargs, "noise_precision")) => wl_exc # "KeyError"
    /\ (wl_pc # "idle" /\ nn_model.use_sigmoid /\ ~HasKey(optim_kwargs, "use_gprior")) =>
           /\ wl_pc = "raised" /\ wl_exc = "KeyError" /\ wl_line = 90
           /\ wl_iter = 0 /\ lin_weights_fd = NoStorage /\ optimizer = NoOptimizer

(* a call for a sigmoid network without 'use_gprior' has raised *)
C22_Witness ==
    /\ wl_pc = "raised"
    /\ nn_model.use_sigmoid
    /\ ~HasKey(optim_kwargs, "use_gprior")
    /\ wl_exc = "KeyError"

(* C23: both call sites of weights_linearization pass only parameters the
   function declares and an optim_kwargs with every key it reads
   unconditionally, so a call from either site reaches the optimization loop
   and returns (lin_weights, lin_recon): it never raises *)
C23_CallSitesReachTheLoop ==
    wl_site \in {"sample_based", "experiment"} => wl_pc \in {"loop", "returned"}

----------------------------------------------------------------------------
(* C27: the precondition asserted at line 77 can be evaluated and holds: the
   operator has one parameter more than its image covariance, and no call
   ends in an exception of the assertion *)
C27_AssertionEvaluatesAndHolds ==
    /\ ge_pc # "idle" => Len(parameters) = Len(image_cov_parameters) + 1
    /\ ge_pc = "raised" => ge_exc \notin {"TypeError", "AssertionError"}

(* C28: the CG solve of the estimator runs with linear_cg's defaults, at
   most 10 iterations and rtol 1e-3, whatever max_iter and rtol the caller
   configured under 'linear_cg' *)
C28_SolveRunsWithDefaults ==
    ge_pc \in {"pullback", "prior", "noise", "returned"} =>
        v_obs_left_flat =
            LinearCg(trafo, log_variance, log_noise_variance, v_flat,
                     ge_preconditioner, 10, Rat(1, 1000)).solve

(* a call returned whose solve differs from the one the caller's settings
   would have produced *)
C28_Witness ==
    /\ ge_pc = "returned"
    /\ v_obs_left_flat #
           LinearCg(trafo, log_variance, log_noise_variance, v_flat,
                    ge_preconditioner, linear_cg_kwargs.max_iter,
                    linear_cg_kwargs.rtol).solve

----------------------------------------------------------------------------
(* coordinator of experiments/dip_mll_optim.py: the loop over the samples *)

MaxImages == 4

(* the entries of cfg the loop reads: num_images and skip_first_images
   (lines 31-32), mll_optim.use_linearized_weights (line 100),
   dip.net.use_sigmoid (lines 52, 107, 110), and the length of the dataset *)
Cfgs ==
    {[num_images |-> n, skip_first_images |-> k, use_linearized_weights |-> u,
      use_sigmoid |-> s, len_dataset |-> d] :
        n \in 0..MaxImages, k \in 0..MaxImages, u \in BOOLEAN, s \in BOOLEAN,
        d \in 1..MaxImages}

(* f'{stem}_{i}.pt' *)
FileName(stem, n) == <<stem, n>>

(* the number of samples islice(DataLoader(dataset), cfg.num_images) yields *)
NumSamples(c) == Min(c.num_images, c.len_dataset)

(* how the call of lines 119-126 can end for a DIP network with the given
   use_sigmoid: the exception it raises, or NoValue when it reaches the loop *)
LinearizationOutcomes(use_sigmoid) ==
    IF ~Binds(ExperimentKeywords)
    THEN {"TypeError"}
    ELSE UNION {
           {IF flag = "AttributeError"
            THEN "AttributeError"
            ELSE LET passed == [net EXCEPT !.use_sigmoid = (flag = "True")]
                 IN  IF FirstMissingKey(KeysReadBeforeLoop(passed, kwargs), kwargs)
                            = NoValue
                     THEN NoValue
                     ELSE "KeyError" :
                kwargs \in ExperimentOptimKwargs(net),
                flag \in ExperimentUseSigmoid(net)} :
           net \in {n \in WlNetworks : n.use_sigmoid = use_sigmoid}}

(* how a call into code outside the module can end: reconstruct (line 62),
   marginal_likelihood_hyperparams_optim (line 152) *)
ExternalOutcomes == {NoValue, "RuntimeError"}

(* one pass of lines 35-162 for a sample that is not skipped: the exception
   that ends it and the line it is raised at, or line 162 reached *)
SamplePass(c, recon_exc, lin_exc, mll_exc) ==
    IF recon_exc # NoValue
    THEN [exc |-> recon_exc, line |-> 62]
    ELSE IF c.use_linearized_weights /\ lin_exc # NoValue
    THEN [exc |-> lin_exc, line |-> 119]
    ELSE IF mll_exc # NoValue
    THEN [exc |-> mll_exc, line |-> 152]
    ELSE [exc |-> NoValue, line |-> 162]

(* the observation covariance saved as soon as it is built *)
FilesWrittenEagerly(n, line) ==
    {FileName("sample", n)}
        \cup (IF line > 69 THEN {FileName("dip_model", n)} ELSE {})
        \cup (IF line > 98 THEN {FileName("observation_cov", n)} ELSE {})

(* the torch.save calls of lines 40, 69 and 160 that a pass ending at the
   given line has made *)
FilesWritten(n, line) ==
    {FileName("sample", n)}
        \cup (IF line > 69 THEN {FileName("dip_model", n)} ELSE {})
        \cup (IF line > 160 THEN {FileName("observation_cov", n)} ELSE {})

(* lines 15-31: the run starts in an empty working directory *)
CoordinatorCall ==
    /\ ex_pc = "idle"
    /\ ex_pc' = "loop"
    /\ cfg' \in Cfgs
    /\ ex_i' = 0
    /\ ex_files' = {}
    /\ ex_exc' = NoValue
    /\ ex_line' = 31
    /\ UNCHANGED <<objVars, lrVars, cgVars, geVars, wlVars, preVars, sbVars>>

(* lines 31-33: continue *)
CoordinatorSkip ==
    /\ ex_pc = "loop"
    /\ ex_i < NumSamples(cfg)
    /\ ex_i < cfg.skip_first_images
    /\ ex_i' = ex_i + 1
    /\ UNCHANGED <<ex_pc, cfg, ex_files, ex_exc, ex_line>>
    /\ UNCHANGED <<objVars, lrVars, cgVars, geVars, wlVars, preVars, sbVars>>

(* lines 31-162 for a sample that is not skipped; no statement of the body
   is inside a try *)
CoordinatorSample ==
    /\ ex_pc = "loop"
    /\ ex_i < NumSamples(cfg)
    /\ ~(ex_i < cfg.skip_first_images)
    /\ \E recon_exc \in ExternalOutcomes,
          lin_exc \in LinearizationOutcomes(cfg.use_sigmoid),
          mll_exc \in ExternalOutcomes :
          LET pass == SamplePass(cfg, recon_exc, lin_exc, mll_exc)
          IN  /\ ex_files' = ex_files \cup FilesWritten(ex_i, pass.line)
              /\ ex_exc' = pass.exc
              /\ IF pass.exc = NoValue
                 THEN /\ ex_i' = ex_i + 1
                      /\ ex_pc' = "loop"
                      /\ ex_line' = 31
                 ELSE /\ ex_i' = ex_i
                      /\ ex_pc' = "raised"
                      /\ ex_line' = pass.line
    /\ UNCHANGED cfg
    /\ UNCHANGED <<objVars, lrVars, cgVars, geVars, wlVars, preVars, sbVars>>

(* the iterator is exhausted: coordinator returns None *)
CoordinatorReturn ==
    /\ ex_pc = "loop"
    /\ ex_i = NumSamples(cfg)
    /\ ex_pc' = "returned"
    /\ ex_line' = 163
    /\ UNCHANGED <<cfg, ex_i, ex_files, ex_exc>>
    /\ UNCHANGED <<objVars, lrVars, cgVars, geVars, wlVars, preVars, sbVars>>

(* the process ends *)
CoordinatorDone ==
    /\ ex_pc \in {"returned", "raised"}
    /\ ex_pc' = "idle"
    /\ cfg' = NoCfg
    /\ ex_i' = 0
    /\ ex_files' = {}
    /\ ex_exc' = NoValue
    /\ ex_line' = 0
    /\ UNCHANGED <<objVars, lrVars, cgVars, geVars, wlVars, preVars, sbVars>>

EXInit == WLInit

EXNext ==
    \/ CoordinatorCall
    \/ CoordinatorSkip
    \/ CoordinatorSample
    \/ CoordinatorReturn
    \/ CoordinatorDone

EXSpec == EXInit /\ [][EXNext]_vars

(* C26: an exception raised while sample i is processed leaves coordinator:
   the run is then over, no file of a later sample and no
   observation_cov_{i}.pt exists.  The samples passed over are exactly those
   with index below skip_first_images: for them no file exists, and every
   other sample before the current one has its observation_cov file. *)
C26_ExceptionHaltsRun ==
    /\ [](ex_exc # NoValue => ex_pc = "raised")
    /\ [](ex_pc = "raised" =>
            /\ ex_exc # NoValue
            /\ FileName("observation_cov", ex_i) \notin ex_files
            /\ \A f \in ex_files : f[2] <= ex_i)
    /\ [](\A f \in ex_files : f[2] >= cfg.skip_first_images)
    /\ [](ex_pc # "idle" =>
            \A n \in 0..(ex_i - 1) :
                n >= cfg.skip_first_images =>
                    {FileName("sample", n), FileName("dip_model", n),
                     FileName("observation_cov", n)} \subseteq ex_files)
    /\ [][ex_pc = "raised" => (ex_pc' = "idle" /\ ex_files' = {})]_vars

(* sample 0 was skipped, a later sample completed, the next one raised, and
   samples remain that are never processed *)
C26_Witness ==
    /\ ex_pc = "raised"
    /\ cfg.skip_first_images >= 1
    /\ ex_i > cfg.skip_first_images
    /\ ex_i + 1 < NumSamples(cfg)
    /\ FileName("sample", ex_i) \in ex_files
    /\ FileName("observation_cov", ex_i - 1) \in ex_files

----------------------------------------------------------------------------
(* sample_based_marginal_likelihood_optim and the low-rank preconditioner *)

MaxSbIterations == 2

MaxUpdates == 2

(* the basis get_batched_low_rank_observation_cov_basis computes is a
   function of the operator at the time of the call; it is represented here
   by the transform and the prior hyperparameters it was computed from *)
LowRankBasis(T, lv) == [trafo |-> T, log_variance |-> lv]

(* an update that keeps a basis it already has *)
UpdatedBasisKept(old, T, lv) == IF old = NoBasis THEN LowRankBasis(T, lv) ELSE old

(* LowRankPreC.update(): the basis is computed anew from the operator *)
UpdatedBasis(old, T, lv) == LowRankBasis(T, lv)

(* obj.log_variance = value for a plain tensor value (line 140):
   nn.Module.__setattr__ refuses a tensor that is not a Parameter for a
   registered parameter name; for an unregistered attribute the name is bound
   to the new tensor *)
SetAttr(obj) ==
    IF obj.registered
    THEN [exc |-> "TypeError", obj |-> obj]
    ELSE [exc |-> NoValue, obj |-> [storage |-> "variance_coeff.log()", registered |-> FALSE]]

(* the optim_kwargs entries the loop reads, lines 61 and 142 *)
SbOptimKwargs ==
    {[iterations |-> n, cg_preconditioner |-> p] :
        n \in 0..MaxSbIterations,
        p \in {NoValue} \cup (IF pre_basis = NoBasis THEN {} ELSE {"LowRankPreC"})}

(* LowRankPreC(pre_con_obj=low_rank_observation_cov) *)
PreconditionerBuild ==
    /\ lr_pc = "idle" /\ cg_pc = "idle" /\ ge_pc = "idle" /\ sb_pc = "idle"
    /\ pre_basis = NoBasis
    /\ pre_basis' = LowRankBasis(trafo, log_variance)
    /\ UNCHANGED <<gprior_log_variance, pre_updates>>
    /\ UNCHANGED <<objVars, lrVars, cgVars, geVars, wlVars, exVars, sbVars>>

(* the caller of the optimization invokes update() *)
PreconditionerUpdate ==
    /\ lr_pc = "idle" /\ cg_pc = "idle" /\ ge_pc = "idle" /\ sb_pc = "idle"
    /\ pre_basis # NoBasis
    /\ pre_updates < MaxUpdates
    /\ pre_basis' = UpdatedBasis(pre_basis, trafo, log_variance)
    /\ pre_updates' = pre_updates + 1
    /\ UNCHANGED gprior_log_variance
    /\ UNCHANGED <<objVars, lrVars, cgVars, geVars, wlVars, exVars, sbVars>>

(* lines 25-61 *)
SbCall ==
    /\ sb_pc = "idle"
    /\ lr_pc = "idle" /\ cg_pc = "idle" /\ ge_pc = "idle"
    /\ sb_pc' = "loop"
    /\ sb_optim_kwargs' \in SbOptimKwargs
    /\ sb_i' = 0
    /\ sb_written' = {}
    /\ sb_files' = {}
    /\ sb_exc' = NoValue
    /\ sb_line' = 61
    /\ UNCHANGED <<objVars, lrVars, cgVars, geVars, wlVars, exVars, preVars>>

(* one pass of lines 62-153.  The call of lines 85-92 does not bind (its
   keywords are not the declared parameters), so the pass ends there; the
   rest of the body is what a bound call that returned would be followed by:
   the assignment of line 140, the update of line 142, the save of line 144 *)
SbIterate ==
    /\ sb_pc = "loop"
    /\ sb_i < sb_optim_kwargs.iterations
    /\ IF ~Binds(SampleBasedKeywords)
       THEN /\ sb_pc' = "raised"
            /\ sb_exc' = "TypeError"
            /\ sb_line' = 85
            /\ UNCHANGED <<sb_i, sb_written, sb_files, objVars, preVars>>
       ELSE LET assigned == SetAttr(gprior_log_variance)
            IN  IF assigned.exc # NoValue
                THEN /\ sb_pc' = "raised"
                     /\ sb_exc' = assigned.exc
                     /\ sb_line' = 140
                     /\ UNCHANGED <<sb_i, sb_written, sb_files, objVars, preVars>>
                ELSE /\ \E x \in LogVals :
                            log_variance' = [log_variance EXCEPT ![1] = x]
                     /\ gprior_log_variance' = assigned.obj
                     /\ sb_written' = sb_written \cup {sb_i}
                     /\ IF sb_optim_kwargs.cg_preconditioner # NoValue
                        THEN /\ pre_basis' = UpdatedBasis(pre_basis, trafo, log_variance')
                             /\ pre_updates' = Min(pre_updates + 1, MaxUpdates)
                        ELSE UNCHANGED <<pre_basis, pre_updates>>
                     /\ sb_files' = sb_files \cup {FileName("observation_cov_iter", sb_i)}
                     /\ sb_i' = sb_i + 1
                     /\ UNCHANGED <<sb_pc, sb_exc, sb_line>>
                     /\ UNCHANGED <<trafo, log_noise_variance, low_rank_rank_dim,
                                    oversampling_param, vec_batch_size, random_matrix>>
    /\ UNCHANGED sb_optim_kwargs
    /\ UNCHANGED <<lrVars, cgVars, geVars, wlVars, exVars>>

(* line 190: linearized_weights is bound by line 85 only *)
SbReturn ==
    /\ sb_pc = "loop"
    /\ sb_i = sb_optim_kwargs.iterations
    /\ sb_line' = 190
    /\ IF sb_i = 0
       THEN /\ sb_pc' = "raised"
            /\ sb_exc' = "UnboundLocalError"
       ELSE /\ sb_pc' = "returned"
            /\ sb_exc' = NoValue
    /\ UNCHANGED <<sb_optim_kwargs, sb_i, sb_written, sb_files>>
    /\ UNCHANGED <<objVars, lrVars, cgVars, geVars, wlVars, exVars, preVars>>

(* the caller has the result or the exception *)
SbDone ==
    /\ sb_pc \in {"returned", "raised"}
    /\ sb_pc' = "idle"
    /\ sb_optim_kwargs' = NoSbOptimKwargs
    /\ sb_i' = 0
    /\ sb_written' = {}
    /\ sb_files' = {}
    /\ sb_exc' = NoValue
    /\ sb_line' = 0
    /\ UNCHANGED <<objVars, lrVars, cgVars, geVars, wlVars, exVars, preVars>>

SBInit == CGInit

SBNext ==
    \/ PreconditionerBuild
    \/ PreconditionerUpdate
    \/ SbCall
    \/ SbIterate
    \/ SbReturn
    \/ SbDone
    \/ SetLogVariance
    \/ SetLogNoiseVariance

SBSpec == SBInit /\ [][SBNext]_vars

(* C24: the loop updates the prior hyperparameter in place: a call that has
   ended has written the prior variance in each of its iterations, and the
   object the gprior holds is still the registered parameter it was built
   with, with a positive variance. *)
C24_UpdatedInPlace ==
    /\ gprior_log_variance = InitialHyperparameter
    /\ \A g \in DOMAIN log_variance : Exp(log_variance[g]) > 0
    /\ sb_pc \in {"returned", "raised"} =>
           sb_written = 0..(sb_optim_kwargs.iterations - 1)

(* C25: the basis the preconditioner holds changes only by its construction
   or by an update() call; a write of a hyperparameter without such a call
   leaves it as it is; an update() leaves the basis of the operator's
   hyperparameters at that time; and inside the sample-based loop update() is
   called only with a preconditioner configured and with the iteration's
   prior variance written. *)
C25_BasisChangesOnlyOnUpdate ==
    /\ [][pre_basis' # pre_basis =>
             (pre_basis = NoBasis \/ pre_updates' = pre_updates + 1)]_vars
    /\ [][(log_variance' # log_variance /\ pre_updates' = pre_updates) =>
             pre_basis' = pre_basis]_vars
    /\ [][pre_updates' # pre_updates =>
             pre_basis' = LowRankBasis(trafo', log_variance')]_vars
    /\ [][(sb_pc = "loop" /\ pre_updates' # pre_updates) =>
             (sb_optim_kwargs.cg_preconditioner # NoValue /\ sb_i \in sb_written')]_vars

(* an update() was made and a later write of a hyperparameter left the basis
   stale *)
C25_Witness ==
    /\ pre_updates >= 1
    /\ pre_basis # NoBasis
    /\ pre_basis # LowRankBasis(trafo, log_variance)

====
